---- MODULE Spec2Model ----
(***************************************************************************)
(* Verification model of the Argus backend: the IMAP sync engine           *)
(* (EmailAccountService.sync_emails), the persistence store                *)
(* (MailboxCrud, EmailSyncCrud, EmailCrud) and the phishing detection      *)
(* pipeline (PhishingDetectionService, the whitelist matchers, the         *)
(* detectors and PhishingEventService).                                    *)
(*                                                                         *)
(* The specifications share the variables:                                 *)
(*   SpecSync      one account synchronised against a changing IMAP        *)
(*                 server, with background detection and operator          *)
(*                 re-detection;                                           *)
(*   SpecStore     the store driven directly, as tests/test_email_sync.py  *)
(*                 drives it;                                              *)
(*   SpecDetect    the detection pipeline applied to stored messages,      *)
(*                 with the whitelist tables as fixed inputs;              *)
(*   SpecEvents    subscribers and publishers of PhishingEventService;     *)
(*   SpecWhitelist the operator editing the whitelist tables while         *)
(*                 detections run;                                         *)
(*   SpecBatch     detection batches from their start to their             *)
(*                 batch-completed events;                                 *)
(*   SpecStream    SSE streams whose clients go away, and FairSpecStream,  *)
(*                 the same with the event loop running every stream;      *)
(*   SpecMatch     the two whitelist matchers asked about one domain and   *)
(*                 one rule;                                               *)
(*   SpecList      the message list read page by page;                     *)
(*   SpecPair      two syncs of one account at the same time;              *)
(*   SpecSettings  get_settings and update_settings calls of               *)
(*                 SystemSettingsService with its cache;                   *)
(*   SpecReload    detect calls of MLPhishingDetector while reload_model   *)
(*                 runs;                                                   *)
(*   SpecResync    syncs of an account synced before, with deliveries and  *)
(*                 failing FETCH commands;                                 *)
(*   SpecOwner     detection batches publishing while streams register     *)
(*                 and unregister.                                         *)
(***************************************************************************)
EXTENDS Integers, Sequences, FiniteSets, TLC

(***************************************************************************)
(* Bounds of the model.                                                    *)
(***************************************************************************)
\* largest UID the server assigns in a folder
MaxUid == 2
\* largest UIDVALIDITY value the server reports
MaxGen == 2
\* chunk size of the fetch loop; the source uses 20 (email_account_service.py:261)
ChunkSize == 1
\* first-sync look-back; the source uses 50 (email_account_service.py:248)
InitialLookback == 1
\* largest auto-increment id of mailbox_messages
MaxRowId == 2
\* longest payload list handed to save_mailbox_emails by SpecStore
MaxBatch == 2
\* number of syncs in one behaviour of SpecSync that SyncAbort does not end
MaxSyncs == 2
\* number of detection batches alive at once
MaxTasks == 1
\* number of server-side changes in one behaviour of SpecSync
MaxServerSteps == 3
\* number of IMAP or database calls that fail in one behaviour of SpecSync
MaxFaults == 1
\* largest id of a row of the listed table
MaxListRows == 3
\* largest internal_date of a listed row (NULL stands for no date)
MaxDate == 2
\* largest limit of a page
MaxLimit == 2
\* cache_ttl_seconds; the source uses 30 (system_settings_service.py:23)
CacheTtl == 2
\* largest value of time.monotonic() in one behaviour of SpecSettings
MaxClock == 3
\* number of is_long_url_detection_enabled calls in flight at once
MaxGets == 2
\* number of is_long_url_detection_enabled calls in one behaviour
MaxSettingCalls == 3
\* number of update_settings calls in one behaviour
MaxUpdates == 2
\* number of reload_model calls in one behaviour of SpecReload
MaxReloads == 2
\* number of MLPhishingDetector.detect calls in one behaviour of SpecReload
MaxDetects == 2
\* number of versions of the model files
MaxVersion == 2
\* number of detection batches started in one behaviour of SpecBatch
MaxSubmissions == 2
\* maxsize of a subscriber queue; the source uses 100
\* (phishing_event_service.py:39)
QueueMaxSize == 2
\* number of SSE connections opened in one behaviour of SpecEvents
MaxQueues == 2
\* number of events published in one behaviour of SpecEvents
MaxPublish == 3
\* number of rules in a whitelist table of SpecWhitelist
MaxRules == 1

(***************************************************************************)
(* Fixed data of the model.                                                *)
(***************************************************************************)
\* LIST response of the account, in server order
Mailboxes == << [name |-> "INBOX", attributes |-> "\\HasNoChildren"],
                [name |-> "Archive", attributes |-> "\\NOSELECT"],
                [name |-> "Sent", attributes |-> "\\HasNoChildren"] >>

MailboxNames == {Mailboxes[i].name : i \in DOMAIN Mailboxes}

\* Message-ID header values
MessageIds == {"a", "b"}

\* FLAGS lists a FETCH response can carry
FlagLists == { <<>>, << "\\Seen", "\\Flagged" >> }

\* SQL NULL
NULL == 0

Max(a, b) == IF a >= b THEN a ELSE b

MaxOf(S) == CHOOSE x \in S : \A y \in S : y <= x

Range(s) == {s[i] : i \in DOMAIN s}

\* ascending list of a set of numbers (sorted())
RECURSIVE SortedSeq(_)
SortedSeq(S) ==
    IF S = {} THEN <<>>
    ELSE LET x == CHOOSE y \in S : \A z \in S : y <= z
         IN <<x>> \o SortedSeq(S \ {x})

VARIABLES
    \* ---- IMAP server (environment) ----
    srv_uid_validity,   \* folder name -> UIDVALIDITY
    srv_messages,       \* folder name -> set of UIDs in use
    srv_uid_next,       \* folder name -> UIDNEXT
    \* ---- database ----
    mailboxes,          \* table mailboxes, keyed by folder name (one account)
    mailbox_messages,   \* table mailbox_messages (set of rows)
    next_row_id,        \* auto-increment of mailbox_messages
    email_messages,     \* table email_messages (row id = index)
    email_bodies,       \* table email_bodies (message ids)
    email_recipients,   \* table email_recipients (message ids)
    \* ---- one run of sync_emails ----
    pc,                 \* position in sync_emails
    folder_index,       \* index of the folder being processed
    status,             \* result of get_mailbox_status
    uid_changed,        \* second result of upsert_mailbox
    last_uid,           \* mailbox_entity.last_uid as read by the sync
    start_uid,          \* start_uid computed for the search
    uids,               \* sorted UIDs still to be processed
    payloads,           \* payloads built from the current chunk
    new_email_ids,      \* ids collected for background detection
    selected,           \* folder the connection has selected ("" = none)
    \* ---- background detection ----
    detection_tasks,    \* running _detect_and_update_batch tasks
    \* ---- history ----
    last_save,          \* the last call of save_mailbox_emails
    sync_log,           \* what the current sync has done
    budget,             \* remaining syncs and server steps
    \* ---- PhishingEventService ----
    connections,        \* _connections: user id -> list of queues
    queues,             \* the asyncio.Queue objects made by register
    published,          \* history: the frames published, in order
    dequeued,           \* history: the frames each stream has yielded
    \* ---- whitelists ----
    sender_whitelist,   \* table sender_whitelist_rules
    url_whitelist,      \* table url_whitelist_rules
    sender_cached_rules, \* SenderWhitelistMatcher._cached_rules
    url_cached_rules,   \* UrlWhitelistMatcher._cached_rules
    last_detection,     \* history: the last _check_whitelist_and_detect
    \* ---- detection batches with their events ----
    account_user,       \* message id -> user_id of its email account
    batches,            \* the _detect_and_update_batch tasks started
    \* ---- SSE streams ----
    streams,            \* queue -> position of its event_generator
    connection_keys,    \* the keys of _connections
    \* ---- the message list read page by page ----
    list_rows,          \* mailbox_messages rows with their internal_date
    list_args,          \* mailbox_ids and limit of the chain of calls
    list_pages,         \* history: the pages returned so far
    list_last,          \* history: the last get_by_mailbox_ids_cursor call
    \* ---- the whitelist matchers asked about one rule ----
    last_match,         \* history: the last _match_rule call
    \* ---- two syncs of one account at the same time ----
    syncs,              \* sync -> its position and local variables
    \* ---- SystemSettingsService ----
    settings,           \* the system_settings row, the cache and the clock
    settings_calls,     \* get_settings and update_settings calls in flight
    \* ---- MLPhishingDetector ----
    ml_state,           \* _is_loaded, _model and _tfidf
    ml_calls,           \* reload_model and detect calls in flight
    \* ---- syncs after a failed fetch or a delivery ----
    resync_log          \* history: UIDs delivered, requested and failed

dbvars == << mailboxes, mailbox_messages, next_row_id, email_messages,
             email_bodies, email_recipients >>
srvvars == << srv_uid_validity, srv_messages, srv_uid_next >>
syncvars == << pc, folder_index, status, uid_changed, last_uid, start_uid,
               uids, payloads, new_email_ids, selected >>
evvars == << connections, queues, published, dequeued >>
wlvars == << sender_whitelist, url_whitelist, sender_cached_rules,
            url_cached_rules, last_detection >>
batchvars == << account_user, batches >>
streamvars == << streams, connection_keys >>
listvars == << list_rows, list_args, list_pages, list_last >>
matchvars == << last_match >>
pairvars == << syncs >>
setvars == << settings, settings_calls >>
modelvars == << ml_state, ml_calls >>
latevars == << setvars, modelvars, resync_log >>
restvars == << listvars, matchvars, pairvars, latevars >>
extvars == << batchvars, streamvars, restvars >>
othervars == << evvars, wlvars, extvars >>
vars == << srv_uid_validity, srv_messages, srv_uid_next,
           mailboxes, mailbox_messages, next_row_id, email_messages,
           email_bodies, email_recipients,
           pc, folder_index, status, uid_changed, last_uid, start_uid,
           uids, payloads, new_email_ids, selected,
           detection_tasks, last_save, sync_log, budget,
           connections, queues, published, dequeued,
           sender_whitelist, url_whitelist, sender_cached_rules,
           url_cached_rules, last_detection,
           account_user, batches, streams, connection_keys,
           list_rows, list_args, list_pages, list_last,
           last_match, syncs, settings, settings_calls,
           ml_state, ml_calls, resync_log >>

mailvars == << srvvars, dbvars, syncvars, detection_tasks, last_save,
              sync_log, budget >>

(***************************************************************************)
(* PhishingEventService and the SSE stream of PhishingRouter               *)
(***************************************************************************)
\* user ids
Users == {1, 2}

\* _format_sse: the frame text of an event name and its payload
format_sse(event, data) == [event |-> event, data |-> data]

\* PhishingEventService.__init__
InitEventService ==
    /\ connections = [u \in Users |-> <<>>]
    /\ queues = <<>>
    /\ published = <<>>
    /\ dequeued = <<>>

\* asyncio.Queue.full
queue_full(frames) == Len(frames) >= QueueMaxSize

\* variant of get_nowait that takes the newest item
queue_get_newest(frames) ==
    IF frames = <<>> THEN [empty |-> TRUE, rest |-> frames]
    ELSE [empty |-> FALSE, item |-> frames[Len(frames)],
          rest |-> SubSeq(frames, 1, Len(frames) - 1)]

\* asyncio.Queue.get_nowait: the item and the rest; QueueEmpty on an empty
\* queue
queue_get_nowait(frames) ==
    IF frames = <<>> THEN [empty |-> TRUE, rest |-> frames]
    ELSE [empty |-> FALSE, item |-> Head(frames), rest |-> Tail(frames)]

\* asyncio.Queue.put_nowait: QueueFull leaves the queue as it is
queue_put_nowait(frames, message) ==
    IF queue_full(frames) THEN frames ELSE Append(frames, message)

\* variant of the loop body of _broadcast that keeps a full queue as it is
broadcast_skips_full(frames, message) == queue_put_nowait(frames, message)

\* the loop body of _broadcast for one queue
broadcast_to_queue(frames, message) ==
    LET room == IF queue_full(frames)
                THEN queue_get_nowait(frames).rest
                ELSE frames
    IN queue_put_nowait(room, message)

\* variant of _broadcast that puts the frame into the queues of every user
broadcast_to_all(qs, user_id, message) ==
    [q \in DOMAIN qs |->
        IF q \in UNION {Range(connections[u]) : u \in DOMAIN connections}
        THEN [qs[q] EXCEPT !.frames = broadcast_to_queue(@, message)]
        ELSE qs[q]]

\* _broadcast(user_id, message) on the queues qs: the queues after it
broadcast_in(qs, user_id, message) ==
    [q \in DOMAIN qs |->
        IF \E i \in DOMAIN connections[user_id] : connections[user_id][i] = q
        THEN [qs[q] EXCEPT !.frames = broadcast_to_queue(@, message)]
        ELSE qs[q]]

\* _broadcast(user_id, message): the queues after it
broadcast(user_id, message) == broadcast_in(queues, user_id, message)

\* register(user_id), called by stream_events
register ==
    \E user_id \in Users :
        /\ Len(queues) < MaxQueues
        /\ queues' = Append(queues, [user_id |-> user_id, frames |-> <<>>])
        /\ connections' = [connections EXCEPT ![user_id] =
                              Append(@, Len(queues) + 1)]
        /\ dequeued' = Append(dequeued, <<>>)
        /\ connection_keys' = connection_keys \cup {user_id}
        /\ UNCHANGED << published, mailvars, wlvars, batchvars, restvars, streams >>

\* list.remove
Remove(list, x) ==
    SelectSeq(list, LAMBDA y : y # x)

\* variant of unregister without "if not queues: pop": the key stays
unregister_keeps_key(keys, user_id, remaining) == keys

\* unregister: the keys of _connections after the queue was removed and
\* remaining is the list left for the user
unregister_keys(keys, user_id, remaining) ==
    IF remaining = <<>> THEN keys \ {user_id} ELSE keys

\* the client disconnects: stream_events leaves its loop and calls
\* unregister(user_id, queue)
unregister ==
    \E user_id \in Users : \E i \in DOMAIN connections[user_id] :
        /\ connections' = [connections EXCEPT ![user_id] =
                              Remove(@, connections[user_id][i])]
        /\ connection_keys' = unregister_keys(connection_keys, user_id,
                                  connections'[user_id])
        /\ UNCHANGED << queues, published, dequeued, mailvars, wlvars,
                        batchvars, restvars, streams >>

\* the publishing half of publish_detection_update and
\* publish_batch_completed; the payload of the n-th event is written n
publish(user_id, event) ==
    /\ Len(published) < MaxPublish
    /\ \E message \in {format_sse(event, Len(published) + 1)} :
          /\ queues' = broadcast(user_id, message)
          /\ published' = Append(published,
                [user_id |-> user_id, message |-> message,
                 queues |-> Range(connections[user_id])])
    /\ UNCHANGED << connections, dequeued, mailvars, wlvars, extvars >>

\* _detect_and_update_single publishes the result of a message
publish_detection_update ==
    \E user_id \in Users : publish(user_id, "phishing_update")

\* the events published to a user, in order
EventsOf(user_id) ==
    SelectSeq(published, LAMBDA p : p.user_id = user_id)

\* _notify_batch_completed: at the end of a batch, for the users that got
\* a result from it
publish_batch_completed ==
    \E user_id \in Users :
        /\ EventsOf(user_id) # <<>>
        /\ EventsOf(user_id)[Len(EventsOf(user_id))].message.event =
              "phishing_update"
        /\ publish(user_id, "phishing_batch_completed")

\* one turn of the loop of event_generator in which queue.get() returned
stream_events ==
    \E user_id \in Users : \E i \in DOMAIN connections[user_id] :
        \E q \in {connections[user_id][i]} :
          \E got \in {queue_get_nowait(queues[q].frames)} :
            /\ ~got.empty
            /\ queues' = [queues EXCEPT ![q].frames = got.rest]
            /\ dequeued' = [dequeued EXCEPT ![q] = Append(@, got.item)]
            /\ UNCHANGED << connections, published, mailvars, wlvars,
                            extvars >>

\* the queues registered for some user
Registered == UNION {Range(connections[u]) : u \in Users}

\* the client of a stream goes away
ClientDisconnect(q) ==
    /\ q \in DOMAIN queues
    /\ streams[q].pc # "stopped"
    /\ ~streams[q].disconnected
    /\ streams' = [streams EXCEPT ![q].disconnected = TRUE]
    /\ UNCHANGED << evvars, connection_keys, batchvars, restvars, wlvars,
                    mailvars >>

\* event_generator at "if await request.is_disconnected(): break", and the
\* finally clause with unregister(user_id, queue) after the break
StreamCheck(q) ==
    /\ q \in DOMAIN queues
    /\ streams[q].pc = "check"
    /\ IF streams[q].disconnected
       THEN /\ connections' = [connections EXCEPT ![queues[q].user_id] =
                                  Remove(@, q)]
            /\ connection_keys' = unregister_keys(
                   connection_keys, queues[q].user_id,
                   connections'[queues[q].user_id])
            /\ streams' = [streams EXCEPT ![q].pc = "stopped"]
       ELSE /\ streams' = [streams EXCEPT ![q].pc = "wait"]
            /\ UNCHANGED << connections, connection_keys >>
    /\ UNCHANGED << queues, published, dequeued, batchvars, restvars, wlvars, mailvars >>

\* the position after a turn of the loop; late_turns counts the turns that
\* ended after the client had gone
after_turn(stream) ==
    [stream EXCEPT !.pc = "check",
                   !.late_turns = IF stream.disconnected THEN @ + 1 ELSE @]

\* wait_for(queue.get(), timeout=15) returns a message, which is yielded
StreamGet(q) ==
    /\ q \in DOMAIN queues
    /\ streams[q].pc = "wait"
    /\ \E got \in {queue_get_nowait(queues[q].frames)} :
          /\ ~got.empty
          /\ queues' = [queues EXCEPT ![q].frames = got.rest]
          /\ dequeued' = [dequeued EXCEPT ![q] = Append(@, got.item)]
    /\ streams' = [streams EXCEPT ![q] = after_turn(@)]
    /\ UNCHANGED << connections, published, connection_keys, batchvars, restvars,
                    wlvars, mailvars >>

\* wait_for raises TimeoutError after 15 seconds without a message: the
\* keep-alive comment is yielded
StreamTimeout(q) ==
    /\ q \in DOMAIN queues
    /\ streams[q].pc = "wait"
    /\ queues[q].frames = <<>>
    /\ streams' = [streams EXCEPT ![q] = after_turn(@)]
    /\ UNCHANGED << evvars, connection_keys, batchvars, restvars, wlvars,
                    mailvars >>

StreamDisconnects == \E q \in 1..MaxQueues : ClientDisconnect(q)
StreamChecks == \E q \in 1..MaxQueues : StreamCheck(q)
StreamGets == \E q \in 1..MaxQueues : StreamGet(q)
StreamTimeouts == \E q \in 1..MaxQueues : StreamTimeout(q)

(***************************************************************************)
(* Whitelist rules and matchers. A piece of text that the matchers take    *)
(* apart is written as a record: local is the part before "@" of an        *)
(* address (empty for a host name or a keyword) and domain the list of the *)
(* dot-separated labels after it.                                          *)
(***************************************************************************)
Text(local, domain) == [local |-> local, domain |-> domain]

\* the empty string
NoText == Text("", <<>>)

\* str.lower() on the names used
LowerName(name) ==
    CASE name = "QQ" -> "qq"
      [] name = "Alice" -> "alice"
      [] OTHER -> name

lower(text) ==
    Text(LowerName(text.local),
         [i \in DOMAIN text.domain |-> LowerName(text.domain[i])])

\* the substrings of a label that the rules of the model ask for
Substrings(label) ==
    IF label = "notqq" THEN {"notqq", "qq", "not"} ELSE {label}

\* "rule_value in domain" for a one-label rule_value
contains(domain, rule_value) ==
    /\ Len(rule_value) = 1
    /\ \E i \in DOMAIN domain : rule_value[1] \in Substrings(domain[i])

\* the endings of a label that the rules of the model ask for
Endings(label) == IF label = "notqq" THEN {"notqq", "qq"} ELSE {label}

\* variant of the suffix test without the dot: domain.endswith(rule_value)
ends_with_raw(domain, rule_value) ==
    /\ rule_value # <<>>
    /\ Len(domain) >= Len(rule_value)
    /\ LET tail == SubSeq(domain, Len(domain) - Len(rule_value) + 1,
                          Len(domain))
       IN /\ rule_value[1] \in Endings(tail[1])
          /\ Tail(tail) = Tail(rule_value)

\* domain.endswith("." + rule_value)
ends_with_dot(domain, rule_value) ==
    /\ rule_value # <<>>
    /\ Len(domain) > Len(rule_value)
    /\ SubSeq(domain, Len(domain) - Len(rule_value) + 1, Len(domain)) =
          rule_value

\* a row of a rule table
Rule(id, rule_type, rule_value, is_active) ==
    [id |-> id, rule_type |-> rule_type, rule_value |-> rule_value,
     is_active |-> is_active]

\* SenderWhitelistCrud.get_all_active and UrlWhitelistCrud.get_all_active
get_all_active(table) == {rule \in table : rule.is_active}

\* _cached_rules = None
NotCached == [loaded |-> FALSE, rules |-> {}]

\* refresh_rules
refresh_rules(table) == [loaded |-> TRUE, rules |-> get_all_active(table)]

\* SenderWhitelistMatcher.extract_domain: the labels after the last "@",
\* <<>> for None
sender_extract_domain(email) == IF email.local = "" THEN <<>> ELSE email.domain

\* SenderWhitelistMatcher._match_rule
sender_match_rule(email, raw_domain, rule_type, rule_value) ==
    LET value == lower(rule_value)
        domain == lower(Text("", raw_domain)).domain
    IN CASE rule_type = "EMAIL" -> lower(email) = value
         [] rule_type = "DOMAIN" ->
              value.local = "" /\ domain = value.domain
         [] rule_type = "DOMAIN-SUFFIX" ->
              /\ value.local = ""
              /\ \/ domain = value.domain
                 \/ ends_with_dot(domain, value.domain)
         [] rule_type = "DOMAIN-KEYWORD" ->
              value.local = "" /\ contains(domain, value.domain)
         [] OTHER -> FALSE

\* is_sender_whitelisted gets as far as reading the rules
sender_reads_rules(sender_email) ==
    /\ sender_email # NoText
    /\ sender_extract_domain(lower(sender_email)) # <<>>

\* SenderWhitelistMatcher.is_sender_whitelisted on the rules the matcher
\* holds
is_sender_whitelisted(rules, sender_email) ==
    /\ sender_reads_rules(sender_email)
    /\ \E rule \in rules :
          sender_match_rule(lower(sender_email),
                            sender_extract_domain(lower(sender_email)),
                            rule.rule_type, rule.rule_value)

\* a URL: its host name and whether its path ends in one of
\* RESOURCE_EXTENSIONS
Url(host, resource) == [host |-> host, resource |-> resource]

\* UrlWhitelistMatcher.extract_domain: urlparse(url).hostname.lower()
url_extract_domain(url) == lower(Text("", url.host)).domain

\* UrlWhitelistMatcher._match_rule
url_match_rule(raw_domain, rule_type, rule_value) ==
    LET value == lower(rule_value)
        domain == lower(Text("", raw_domain)).domain
    IN CASE rule_type = "DOMAIN" ->
              value.local = "" /\ domain = value.domain
         [] rule_type = "DOMAIN-SUFFIX" ->
              /\ value.local = ""
              /\ \/ domain = value.domain
                 \/ ends_with_dot(domain, value.domain)
         [] rule_type = "DOMAIN-KEYWORD" ->
              value.local = "" /\ contains(domain, value.domain)
         [] OTHER -> FALSE

\* UrlWhitelistMatcher.is_url_whitelisted
is_url_whitelisted(rules, url) ==
    /\ url_extract_domain(url) # <<>>
    /\ \E rule \in rules :
          url_match_rule(url_extract_domain(url), rule.rule_type,
                         rule.rule_value)

\* variant of check_urls_whitelisted that is content with one listed URL
check_urls_whitelisted_any(rules, urls) ==
    \E url \in urls : is_url_whitelisted(rules, url)

\* UrlWhitelistMatcher.check_urls_whitelisted
check_urls_whitelisted(rules, urls) ==
    /\ urls # {}
    /\ \A url \in urls : is_url_whitelisted(rules, url)

\* UrlWhitelistMatcher.is_resource_url
is_resource_url(url) == url.resource

\* extract_urls_from_html and extract_urls_from_text: the links found,
\* without the resource links
extract_urls(links) == {url \in links : ~is_resource_url(url)}

\* the URLs _check_whitelist_and_detect collects from a mail
collect_urls(mail) ==
    extract_urls(mail.html_links) \cup extract_urls(mail.text_links)

NoDetection == [called |-> FALSE]

\* the tables are empty and the matchers have loaded nothing
InitWhitelist ==
    /\ sender_whitelist = {}
    /\ url_whitelist = {}
    /\ sender_cached_rules = NotCached
    /\ url_cached_rules = NotCached
    /\ last_detection = NoDetection

\* one account, owned by user 1; no batch has been started
InitBatches ==
    /\ account_user = [m \in 1..MaxRowId |-> 1]
    /\ batches = <<>>

\* no generator has started, no client has gone, _connections is empty
InitStreams ==
    /\ streams = [q \in 1..MaxQueues |->
                     [pc |-> "check", disconnected |-> FALSE, late_turns |-> 0]]
    /\ connection_keys = {}

\* nothing is listed
InitList ==
    /\ list_rows = {}
    /\ list_args = [mailbox_ids |-> {}, limit |-> 1]
    /\ list_pages = <<>>
    /\ list_last = [called |-> FALSE]

\* no _match_rule call has been recorded
InitMatch == last_match = [called |-> FALSE]

\* no pair of syncs is running
NoSyncs == [started |-> FALSE]

InitPair == syncs = NoSyncs

\* a settings value: the row does not exist, or enable_long_url_detection
NoSettings == [exists |-> FALSE, enable |-> FALSE]

\* SystemSettingsService.__init__, an empty system_settings table and no
\* call in flight
InitSettings ==
    /\ settings = [row |-> NoSettings, cached |-> NoSettings,
                   expires_at |-> 0, clock |-> 0]
    /\ settings_calls = [started |-> FALSE]

\* MLPhishingDetector.__init__ has loaded the model and the vectorizer of
\* the files, and no call is in flight
InitModel ==
    /\ ml_state = [is_loaded |-> TRUE, model |-> 1, tfidf |-> 1]
    /\ ml_calls = [started |-> FALSE]

\* no delivery and no fetch is recorded
InitResyncLog == resync_log = [started |-> FALSE]

InitLate == InitSettings /\ InitModel /\ InitResyncLog

InitExt ==
    /\ InitBatches /\ InitStreams /\ InitList /\ InitMatch /\ InitPair
    /\ InitLate

InitOther == InitEventService /\ InitWhitelist /\ InitExt

(***************************************************************************)
(* imap_flag_utils                                                         *)
(***************************************************************************)
\* str.upper() on the flag names used
Upper(flag) ==
    CASE flag = "\\Seen" -> "\\SEEN"
      [] flag = "\\Flagged" -> "\\FLAGGED"
      [] flag = "\\Answered" -> "\\ANSWERED"
      [] flag = "\\Deleted" -> "\\DELETED"
      [] flag = "\\Draft" -> "\\DRAFT"
      [] OTHER -> flag

FlagRank(flag) ==
    CASE flag = "\\Answered" -> 1
      [] flag = "\\Deleted" -> 2
      [] flag = "\\Draft" -> 3
      [] flag = "\\Flagged" -> 4
      [] flag = "\\Seen" -> 5
      [] OTHER -> 6

\* normalize_flags: None for an empty list (written <<>>), else the flags
\* sorted and joined
normalize_flags(flags) ==
    IF flags = <<>> THEN <<>>
    ELSE SortSeq(flags, LAMBDA a, b : FlagRank(a) < FlagRank(b))

flags_to_status(flags) ==
    LET upper_flags == {Upper(flags[i]) : i \in DOMAIN flags}
    IN [is_read |-> "\\SEEN" \in upper_flags,
        is_flagged |-> "\\FLAGGED" \in upper_flags,
        is_answered |-> "\\ANSWERED" \in upper_flags,
        is_deleted |-> "\\DELETED" \in upper_flags,
        is_draft |-> "\\DRAFT" \in upper_flags]

(***************************************************************************)
(* EmailSyncCrud                                                           *)
(***************************************************************************)
\* number of recipients parsed from a message
Recipients(message_id) == IF message_id = "a" THEN 1 ELSE 2

DB == [mailboxes |-> mailboxes,
       mailbox_messages |-> mailbox_messages,
       next_row_id |-> next_row_id,
       email_messages |-> email_messages,
       email_bodies |-> email_bodies,
       email_recipients |-> email_recipients]

\* _load_existing_messages: Message-ID -> row id, for the ids of the batch
load_existing_messages(db, message_ids) ==
    LET found == {m \in message_ids :
                    \E i \in DOMAIN db.email_messages :
                        db.email_messages[i].message_id = m}
    IN [m \in found |->
          CHOOSE i \in DOMAIN db.email_messages :
              db.email_messages[i].message_id = m]

\* variant of _load_existing_mailbox_messages that finds no row
load_existing_mailbox_messages_none(db, mailbox_id, batch_uids) == {}

\* _load_existing_mailbox_messages: rows of the folder with a uid of the batch
load_existing_mailbox_messages(db, mailbox_id, batch_uids) ==
    {r \in db.mailbox_messages : r.mailbox_id = mailbox_id /\ r.uid \in batch_uids}

\* variant of _update_mailbox_message_flags that stores the flags string
\* and leaves the derived booleans as they were
update_mailbox_message_flags_string_only(row, flags) ==
    [row EXCEPT !.flags = normalize_flags(flags)]

\* _update_mailbox_message_flags
update_mailbox_message_flags(row, flags) ==
    LET st == flags_to_status(flags)
    IN [row EXCEPT !.flags = normalize_flags(flags),
                   !.is_read = st.is_read,
                   !.is_flagged = st.is_flagged,
                   !.is_answered = st.is_answered,
                   !.is_deleted = st.is_deleted,
                   !.is_draft = st.is_draft]

\* variant of _get_or_create_message that writes the detection fields of the
\* payload into the message it reuses
get_or_create_message_resets(acc, payload) ==
    IF payload.message_id \in DOMAIN acc.existing_messages
    THEN LET id == acc.existing_messages[payload.message_id]
         IN [acc EXCEPT
               !.message = id,
               !.email_messages[id].phishing_level = payload.phishing_level,
               !.email_messages[id].phishing_score = payload.phishing_score,
               !.email_messages[id].phishing_status = payload.phishing_status]
    ELSE LET id == Len(acc.email_messages) + 1
             message == [message_id |-> payload.message_id,
                         phishing_level |-> payload.phishing_level,
                         phishing_score |-> payload.phishing_score,
                         phishing_status |-> payload.phishing_status]
         IN [acc EXCEPT
               !.email_messages = Append(acc.email_messages, message),
               !.new_messages = acc.new_messages \cup {id},
               !.existing_messages =
                   [m \in DOMAIN acc.existing_messages \cup {payload.message_id} |->
                       IF m = payload.message_id THEN id
                       ELSE acc.existing_messages[m]],
               !.message = id]

\* _get_or_create_message on the session state acc; returns the new state
\* and the message in field message
get_or_create_message(acc, payload) ==
    IF payload.message_id \in DOMAIN acc.existing_messages
    THEN [acc EXCEPT !.message = acc.existing_messages[payload.message_id]]
    ELSE LET id == Len(acc.email_messages) + 1
             message == [message_id |-> payload.message_id,
                         phishing_level |-> payload.phishing_level,
                         phishing_score |-> payload.phishing_score,
                         phishing_status |-> payload.phishing_status]
         IN [acc EXCEPT
               !.email_messages = Append(acc.email_messages, message),
               !.new_messages = acc.new_messages \cup {id},
               !.existing_messages =
                   [m \in DOMAIN acc.existing_messages \cup {payload.message_id} |->
                       IF m = payload.message_id THEN id
                       ELSE acc.existing_messages[m]],
               !.message = id]

RECURSIVE Repeat(_, _)
Repeat(x, n) == IF n = 0 THEN <<>> ELSE <<x>> \o Repeat(x, n - 1)

\* the loop "for payload in payloads" of save_mailbox_emails
RECURSIVE save_loop(_, _, _, _)
save_loop(acc, mailbox_id, validity, todo) ==
    IF todo = <<>> THEN acc
    ELSE
      LET payload == Head(todo)
          uid == payload.uid
      IN IF uid \in acc.existing_uids
         THEN save_loop(
                [acc EXCEPT !.rows =
                    {IF r.mailbox_id = mailbox_id /\ r.uid = uid
                       THEN update_mailbox_message_flags(r, payload.flags)
                       ELSE r : r \in acc.rows}],
                mailbox_id, validity, Tail(todo))
         ELSE
           LET got == get_or_create_message(acc, payload)
               message == got.message
               with_body ==
                   IF message \in got.new_messages
                   THEN [got EXCEPT
                           !.new_bodies = Append(got.new_bodies, message),
                           !.new_recipients = got.new_recipients \o
                               Repeat(message, Recipients(payload.message_id))]
                   ELSE got
               st == flags_to_status(payload.flags)
               row == [id |-> acc.next_row_id + Len(acc.new_mailbox_messages),
                       mailbox_id |-> mailbox_id,
                       message |-> message,
                       uid |-> uid,
                       flags |-> normalize_flags(payload.flags),
                       is_read |-> st.is_read,
                       is_flagged |-> st.is_flagged,
                       is_answered |-> st.is_answered,
                       is_deleted |-> st.is_deleted,
                       is_draft |-> st.is_draft,
                       created_validity |-> validity]
           IN save_loop(
                [with_body EXCEPT !.new_mailbox_messages =
                    Append(with_body.new_mailbox_messages, row)],
                mailbox_id, validity, Tail(todo))

NoDuplicates(s) == \A i, j \in DOMAIN s : s[i] = s[j] => i = j

\* session.flush(): the INSERTs and UPDATEs succeed unless a UNIQUE constraint
\* (uq_mailbox_uid, uq_email_account_message_id, email_bodies.message_id)
\* is violated
flush_ok(acc) ==
    LET new_rows == acc.new_mailbox_messages
        keys == {<<r.mailbox_id, r.uid>> : r \in acc.rows \cup Range(new_rows)}
    IN /\ Cardinality(keys) = Cardinality(acc.rows) + Len(new_rows)
       /\ NoDuplicates(acc.email_bodies \o acc.new_bodies)
       /\ NoDuplicates([i \in DOMAIN acc.email_messages |->
                           acc.email_messages[i].message_id])

\* variant of commit_session without the rollback: what was added to the
\* session before the failing statement stays in the tables
commit_session_without_rollback(db, acc) ==
    [ok |-> flush_ok(acc),
     db |-> [db EXCEPT
               !.mailbox_messages =
                   IF flush_ok(acc)
                   THEN acc.rows \cup Range(acc.new_mailbox_messages)
                   ELSE acc.rows,
               !.next_row_id =
                   IF flush_ok(acc)
                   THEN db.next_row_id + Len(acc.new_mailbox_messages)
                   ELSE db.next_row_id,
               !.email_messages = acc.email_messages,
               !.email_bodies = db.email_bodies \o acc.new_bodies,
               !.email_recipients =
                   db.email_recipients \o acc.new_recipients],
     count |-> IF flush_ok(acc) THEN Len(acc.new_mailbox_messages) ELSE 0,
     ids |-> IF flush_ok(acc)
             THEN [i \in DOMAIN acc.new_mailbox_messages |->
                     acc.new_mailbox_messages[i].id]
             ELSE <<>>]

\* session.add_all(...), flush and commit, or the rollback of get_session
commit_session(db, acc) ==
    IF flush_ok(acc)
    THEN [ok |-> TRUE,
          db |-> [db EXCEPT
                    !.mailbox_messages =
                        acc.rows \cup Range(acc.new_mailbox_messages),
                    !.next_row_id =
                        db.next_row_id + Len(acc.new_mailbox_messages),
                    !.email_messages = acc.email_messages,
                    !.email_bodies = db.email_bodies \o acc.new_bodies,
                    !.email_recipients =
                        db.email_recipients \o acc.new_recipients],
          count |-> Len(acc.new_mailbox_messages),
          ids |-> [i \in DOMAIN acc.new_mailbox_messages |->
                     acc.new_mailbox_messages[i].id]]
    ELSE [ok |-> FALSE, db |-> db, count |-> 0, ids |-> <<>>]

\* save_mailbox_emails(account_id, mailbox_id, payloads): the resulting
\* database, whether the transaction committed, and the returned pair
save_mailbox_emails(db, mailbox_id, batch) ==
    IF batch = <<>>
    THEN [ok |-> TRUE, db |-> db, count |-> 0, ids |-> <<>>]
    ELSE
      LET message_ids == {batch[i].message_id : i \in DOMAIN batch}
          batch_uids == {batch[i].uid : i \in DOMAIN batch}
          existing_mailbox_messages ==
              load_existing_mailbox_messages(db, mailbox_id, batch_uids)
          acc0 == [existing_messages |-> load_existing_messages(db, message_ids),
                   existing_uids |-> {r.uid : r \in existing_mailbox_messages},
                   email_messages |-> db.email_messages,
                   email_bodies |-> db.email_bodies,
                   rows |-> db.mailbox_messages,
                   next_row_id |-> db.next_row_id,
                   new_messages |-> {},
                   new_bodies |-> <<>>,
                   new_recipients |-> <<>>,
                   new_mailbox_messages |-> <<>>,
                   message |-> 0]
      IN commit_session(db, save_loop(acc0, mailbox_id,
                            db.mailboxes[mailbox_id].uid_validity, batch))

(***************************************************************************)
(* MailboxCrud                                                             *)
(***************************************************************************)
NoMailbox == [exists |-> FALSE, uid_validity |-> NULL, last_uid |-> 0]

\* variant of upsert_mailbox that keeps last_uid when the uid_validity changed
upsert_mailbox_keeps_cursor(table, name, uid_validity) ==
    LET mailbox == table[name]
        changed == /\ mailbox.exists
                   /\ uid_validity # NULL
                   /\ mailbox.uid_validity # NULL
                   /\ mailbox.uid_validity # uid_validity
    IN [table |-> [table EXCEPT ![name] =
            [exists |-> TRUE,
             uid_validity |-> IF uid_validity # NULL \/ ~mailbox.exists
                              THEN uid_validity ELSE mailbox.uid_validity,
             last_uid |-> IF mailbox.exists THEN mailbox.last_uid ELSE 0]],
        uid_changed |-> changed]

\* upsert_mailbox: the new mailboxes table and the uid_changed result
upsert_mailbox(table, name, uid_validity) ==
    LET mailbox == table[name]
    IN IF mailbox.exists
       THEN LET changed == /\ uid_validity # NULL
                           /\ mailbox.uid_validity # NULL
                           /\ mailbox.uid_validity # uid_validity
            IN [table |-> [table EXCEPT ![name] =
                    [exists |-> TRUE,
                     uid_validity |-> IF uid_validity # NULL THEN uid_validity
                                      ELSE mailbox.uid_validity,
                     last_uid |-> IF changed THEN 0 ELSE mailbox.last_uid]],
                uid_changed |-> changed]
       ELSE [table |-> [table EXCEPT ![name] =
                    [exists |-> TRUE, uid_validity |-> uid_validity,
                     last_uid |-> 0]],
             uid_changed |-> FALSE]

\* update_sync_state
update_sync_state(table, name, uid) ==
    IF table[name].exists
    THEN [table EXCEPT ![name].last_uid = uid]
    ELSE table

\* reset_mailbox_messages
reset_mailbox_messages(rows, name) == {r \in rows : r.mailbox_id # name}

(***************************************************************************)
(* History of save_mailbox_emails calls                                    *)
(***************************************************************************)
NoCall == [called |-> FALSE]

\* record of a call: its arguments, its result, whether it repeats the
\* previous successful call, whether it left the four tables unchanged, and
\* whether it found a COMPLETED message to reuse
SaveRecord(db, mailbox_id, batch, res) ==
    [called |-> TRUE,
     mailbox_id |-> mailbox_id,
     payloads |-> batch,
     ok |-> res.ok,
     count |-> res.count,
     ids |-> res.ids,
     repeat |-> /\ last_save.called
                /\ last_save.ok
                /\ last_save.mailbox_id = mailbox_id
                /\ last_save.payloads = batch,
     unchanged |-> /\ res.db.mailbox_messages = db.mailbox_messages
                   /\ res.db.email_messages = db.email_messages
                   /\ res.db.email_bodies = db.email_bodies
                   /\ res.db.email_recipients = db.email_recipients,
     reused_completed |->
         \E i \in DOMAIN batch, m \in DOMAIN db.email_messages :
             /\ db.email_messages[m].message_id = batch[i].message_id
             /\ db.email_messages[m].phishing_status = "COMPLETED"]

(***************************************************************************)
(* SpecStore: the store driven directly                                    *)
(***************************************************************************)
SelectableNames == {"INBOX", "Sent"}

\* content of the two folders: the Message-ID header of the message the
\* server keeps under a UID
StoreMessageId(name, uid) ==
    IF name = "INBOX" THEN (IF uid <= 2 THEN "a" ELSE "b")
    ELSE (IF uid = 1 THEN "a" ELSE "b")

\* the payload _build_payloads makes of a fetched message, with the
\* detection fields sync_emails sets
Payload(name, uid, message_id, flags) ==
    [uid |-> uid, flags |-> flags, message_id |-> message_id,
     phishing_level |-> "NORMAL", phishing_score |-> 0,
     phishing_status |-> "PENDING"]

\* payload lists of n UIDs of one folder, all with the FLAGS list f
RECURSIVE BatchesOfLen(_, _, _)
BatchesOfLen(name, n, f) ==
    IF n = 0 THEN {<<>>}
    ELSE {Append(b, Payload(name, u, StoreMessageId(name, u), f)) :
            b \in BatchesOfLen(name, n - 1, f), u \in 1..MaxUid}

\* the payload lists of a folder, in ascending UID order as sync_emails
\* builds them
StoreBatches ==
    [name \in SelectableNames |->
        {b \in UNION {BatchesOfLen(name, n, f) :
                         n \in 1..MaxBatch, f \in FlagLists} :
            \A i, j \in DOMAIN b : i < j => b[i].uid < b[j].uid}]

IdleSync ==
    /\ pc = "idle"
    /\ folder_index = 0
    /\ status = [uid_validity |-> NULL, uid_next |-> NULL]
    /\ uid_changed = FALSE
    /\ last_uid = 0
    /\ start_uid = 0
    /\ uids = <<>>
    /\ payloads = <<>>
    /\ new_email_ids = <<>>
    /\ selected = ""

\* what the current or last sync did: folders whose SELECT failed, folders
\* searched, fetched from and saved to, ids save_mailbox_emails reported
\* as new, the id lists handed to detect_emails_async, and folders where
\* save_mailbox_emails or the update_sync_state after it raised
NoSyncLog == [result |-> "none", select_failed |-> {}, searched |-> {},
              fetched |-> {}, saved |-> {}, reported |-> {}, submitted |-> <<>>,
              store_failed |-> {}]

InitStore ==
    /\ srv_uid_validity = [n \in SelectableNames |-> 1]
    /\ srv_messages = [n \in SelectableNames |-> {}]
    /\ srv_uid_next = [n \in SelectableNames |-> 1]
    /\ mailboxes = [n \in SelectableNames |->
                      [exists |-> TRUE, uid_validity |-> 100, last_uid |-> 0]]
    /\ mailbox_messages = {}
    /\ next_row_id = 1
    /\ email_messages = <<>>
    /\ email_bodies = <<>>
    /\ email_recipients = <<>>
    /\ IdleSync
    /\ detection_tasks = <<>>
    /\ last_save = NoCall
    /\ sync_log = NoSyncLog
    /\ budget = [syncs |-> 0, faults |-> 0, server |-> 0]
    /\ InitOther

\* a call of save_mailbox_emails, as in test_save_and_query_mailbox_emails
StoreSave ==
    \E name \in SelectableNames : \E batch \in StoreBatches[name] :
        \E res \in {save_mailbox_emails(DB, name, batch)} :
           /\ res.db.next_row_id <= MaxRowId + 1
           /\ mailbox_messages' = res.db.mailbox_messages
           /\ next_row_id' = res.db.next_row_id
           /\ email_messages' = res.db.email_messages
           /\ email_bodies' = res.db.email_bodies
           /\ email_recipients' = res.db.email_recipients
           /\ last_save' = SaveRecord(DB, name, batch, res)
           /\ UNCHANGED << othervars, mailboxes, srvvars, syncvars, detection_tasks,
                           sync_log, budget >>

\* EmailCrud.mark_as_read
mark_as_read(rows, id) ==
    {IF r.id = id THEN [r EXCEPT !.is_read = TRUE] ELSE r : r \in rows}

StoreMarkAsRead ==
    \E id \in 1..MaxRowId :
        /\ mailbox_messages' = mark_as_read(mailbox_messages, id)
        /\ last_save' = NoCall
        /\ UNCHANGED << othervars, mailboxes, next_row_id, email_messages, email_bodies,
                        email_recipients, srvvars, syncvars, detection_tasks,
                        sync_log, budget >>

StoreReset ==
    \E name \in SelectableNames :
        /\ mailbox_messages' = reset_mailbox_messages(mailbox_messages, name)
        /\ last_save' = NoCall
        /\ UNCHANGED << othervars, mailboxes, next_row_id, email_messages, email_bodies,
                        email_recipients, srvvars, syncvars, detection_tasks,
                        sync_log, budget >>

NextStore == StoreSave \/ StoreMarkAsRead \/ StoreReset

SpecStore == InitStore /\ [][NextStore]_vars

(***************************************************************************)
(* IMAP server and ImapClient                                              *)
(***************************************************************************)
\* UID SEARCH UID start:* on the selected folder. "*" is the largest UID in
\* use and a range is unordered, so start:* matches the last message even
\* when start is above it (RFC 3501, 6.4.8 and 9).
uid_search(uid_set, start) ==
    IF uid_set = {} THEN {}
    ELSE {u \in uid_set : u >= start} \cup {MaxOf(uid_set)}

\* ImapClient.fetch_uids_since; with no folder selected the command fails
\* and the result is empty
fetch_uids_since(folder, start) ==
    IF folder = "" THEN <<>>
    ELSE SortedSeq(uid_search(srv_messages[folder], Max(start, 1)))

\* EmailAccountService._chunk_list
RECURSIVE chunk_list(_, _)
chunk_list(values, size) ==
    IF values = <<>> THEN <<>>
    ELSE IF Len(values) <= size THEN << values >>
    ELSE << SubSeq(values, 1, size) >>
         \o chunk_list(SubSeq(values, size + 1, Len(values)), size)

\* the chunks after the first one, as one list again
AfterFirstChunk(values) ==
    SubSeq(values, Len(chunk_list(values, ChunkSize)[1]) + 1, Len(values))

\* fetch_emails_by_uid followed by _build_payloads: the UIDs in got are the
\* ones whose FETCH answered and whose message parsed
RECURSIVE build_payloads(_, _, _)
build_payloads(folder, chunk, got) ==
    IF chunk = <<>> THEN <<>>
    ELSE LET uid == Head(chunk)
             rest == build_payloads(folder, Tail(chunk), got)
         IN IF uid \in got /\ uid \in srv_messages[folder]
            THEN << Payload(folder, uid, StoreMessageId(folder, uid), <<>>) >>
                 \o rest
            ELSE rest

\* the first sync rule and the incremental rule of sync_emails
compute_start_uid(cursor, uid_next) ==
    IF cursor = 0 /\ uid_next # NULL
    THEN Max(uid_next - InitialLookback, 1)
    ELSE cursor + 1

\* a new message arrives in a folder
ServerDeliver ==
    \E name \in SelectableNames :
        /\ pc = "idle"
        /\ budget.server < MaxServerSteps
        /\ srv_uid_next[name] <= MaxUid
        /\ srv_messages' = [srv_messages EXCEPT ![name] =
              @ \cup {srv_uid_next[name]}]
        /\ srv_uid_next' = [srv_uid_next EXCEPT ![name] = @ + 1]
        /\ budget' = [budget EXCEPT !.server = @ + 1]
        /\ UNCHANGED << othervars, srv_uid_validity, dbvars, syncvars, detection_tasks,
                        last_save, sync_log >>

\* a message is expunged by another client
ServerExpunge ==
    \E name \in SelectableNames : \E uid \in srv_messages[name] :
        /\ pc = "idle"
        /\ budget.server < MaxServerSteps
        /\ srv_messages' = [srv_messages EXCEPT ![name] = @ \ {uid}]
        /\ budget' = [budget EXCEPT !.server = @ + 1]
        /\ UNCHANGED << othervars, srv_uid_validity, srv_uid_next, dbvars, syncvars,
                        detection_tasks, last_save, sync_log >>

\* the server rebuilds a folder: new UIDVALIDITY, messages renumbered from 1
ServerNewValidity ==
    \E name \in SelectableNames :
        /\ pc = "idle"
        /\ budget.server < MaxServerSteps
        /\ srv_uid_validity[name] < MaxGen
        /\ srv_uid_validity' = [srv_uid_validity EXCEPT ![name] = @ + 1]
        /\ srv_messages' = [srv_messages EXCEPT ![name] =
              {u \in 1..MaxUid : u <= Cardinality(@)}]
        /\ srv_uid_next' = [srv_uid_next EXCEPT ![name] =
              Cardinality(srv_messages[name]) + 1]
        /\ budget' = [budget EXCEPT !.server = @ + 1]
        /\ UNCHANGED << othervars, dbvars, syncvars, detection_tasks, last_save,
                        sync_log >>

(***************************************************************************)
(* Score to level mapping and the detectors (amounts are fixed-point       *)
(* numbers: a score s stands for s / Scale)                                *)
(***************************************************************************)
Scale == 100000
suspicious_threshold == 60000
high_risk_threshold == 80000

\* round(x, digits) on a fixed-point score: to a multiple of unit, ties to
\* the even multiple
RoundTo(x, unit) ==
    LET q == x \div unit
        r == x % unit
    IN IF 2 * r > unit \/ (2 * r = unit /\ q % 2 = 1)
       THEN (q + 1) * unit
       ELSE q * unit

\* ScoreLevelMapper.get_level (normalize_score clamps to [0, 1])
get_level(score) ==
    LET normalized == IF score < 0 THEN 0
                      ELSE IF score > Scale THEN Scale ELSE score
    IN IF normalized >= high_risk_threshold THEN "HIGH_RISK"
       ELSE IF normalized >= suspicious_threshold THEN "SUSPICIOUS"
       ELSE "NORMAL"

\* MLPhishingDetector.detect: mail.ml is the probability _predict_sync
\* returns, mail.ml_loaded is _is_loaded; field ran of a result names the
\* detectors whose detect was called for it
ml_detect(mail) ==
    IF ~mail.ml_loaded
    THEN [level |-> "NORMAL", score |-> 0, ran |-> {"ml"}]
    ELSE [level |-> get_level(mail.ml), score |-> RoundTo(mail.ml, 10),
          ran |-> {"ml"}]

\* LongUrlDetector.detect; mail.urls tells which kinds of URL the extraction
\* found in content_text and, when content_html is present, in its links
url_detect(mail) ==
    LET f == mail.urls
        s1 == IF f.long_text THEN Scale ELSE 0
        s2 == IF f.has_html /\ f.long_html THEN Max(s1, Scale) ELSE s1
        s3 == IF f.has_html /\ f.disguised THEN Max(s2, 90000) ELSE s2
        s4 == IF f.has_html /\ ~f.long_html /\ f.suspicious_html
              THEN Max(s3, suspicious_threshold) ELSE s3
        s5 == IF s4 < high_risk_threshold /\ f.suspicious_text
              THEN Max(s4, suspicious_threshold) ELSE s4
    IN [level |-> get_level(s5), score |-> RoundTo(s5, 10),
        ran |-> {"long_url"}]

\* CompositePhishingDetector._get_highest_level
get_highest_level(levels) ==
    IF "HIGH_RISK" \in levels THEN "HIGH_RISK"
    ELSE IF "SUSPICIOUS" \in levels THEN "SUSPICIOUS"
    ELSE "NORMAL"

\* variant of CompositePhishingDetector.detect that gives up when the
\* classifier is not loaded
composite_detect_needs_ml(mail) ==
    IF ~mail.ml_loaded
    THEN [level |-> "NORMAL", score |-> 0, ran |-> {"long_url", "ml"}]
    ELSE [level |-> get_highest_level({url_detect(mail).level,
                                       ml_detect(mail).level}),
          score |-> RoundTo(Max(url_detect(mail).score,
                                ml_detect(mail).score), 1000),
          ran |-> {"long_url", "ml"}]

\* CompositePhishingDetector.detect over [long_url_detector, ml_detector]
composite_detect(mail) ==
    LET u == url_detect(mail)
        m == ml_detect(mail)
    IN [level |-> get_highest_level({u.level, m.level}),
        score |-> RoundTo(Max(u.score, m.score), 1000),
        ran |-> u.ran \cup m.ran]

\* DynamicPhishingDetector.detect
dynamic_detect(mail) ==
    IF mail.long_url_enabled THEN composite_detect(mail) ELSE ml_detect(mail)

\* variant of _check_whitelist_and_detect without the sender whitelist
check_whitelist_without_sender(mail, sender_rules, url_rules) ==
    IF check_urls_whitelisted(url_rules, collect_urls(mail))
    THEN [level |-> "NORMAL", score |-> 0, ran |-> {}]
    ELSE dynamic_detect(mail)

\* PhishingDetectionService._check_whitelist_and_detect, on the rules the
\* two matchers hold when they are asked
check_whitelist_and_detect(mail, sender_rules, url_rules) ==
    IF is_sender_whitelisted(sender_rules, mail.sender)
    THEN [level |-> "NORMAL", score |-> 0, ran |-> {}]
    ELSE IF /\ collect_urls(mail) # {}
            /\ check_urls_whitelisted(url_rules, collect_urls(mail))
    THEN [level |-> "NORMAL", score |-> 0, ran |-> {}]
    ELSE dynamic_detect(mail)

\* what LongUrlDetector finds in a mail
Urls(long_t, susp_t, html, long_h, disg, susp_h) ==
    [long_text |-> long_t, suspicious_text |-> susp_t, has_html |-> html,
     long_html |-> long_h, disguised |-> disg, suspicious_html |-> susp_h]

NoUrls == Urls(FALSE, FALSE, FALSE, FALSE, FALSE, FALSE)

UrlFindings ==
    {NoUrls,
     Urls(TRUE, FALSE, FALSE, FALSE, FALSE, FALSE),
     Urls(FALSE, TRUE, FALSE, FALSE, FALSE, FALSE),
     Urls(FALSE, FALSE, TRUE, TRUE, FALSE, TRUE),
     Urls(FALSE, FALSE, TRUE, FALSE, TRUE, FALSE),
     Urls(FALSE, FALSE, TRUE, FALSE, FALSE, TRUE)}

\* what the detection of a message depends on: the sender address, the
\* links of its HTML and text parts, the long-URL setting, the classifier
\* and what LongUrlDetector finds
Mail(sender, html_links, text_links, en, loaded, ml, urls) ==
    [sender |-> sender, html_links |-> html_links, text_links |-> text_links,
     long_url_enabled |-> en, ml_loaded |-> loaded, ml |-> ml, urls |-> urls]

\* probabilities the classifier returns in the model
MlScores == {0, 59600, 60000, 79600, 79996, 80000, 99999}

\* sender addresses: none, one without "@", and four with a domain
Senders ==
    {NoText,
     Text("", <<"qq", "com">>),
     Text("Alice", <<"QQ", "com">>),
     Text("alice", <<"mail", "qq", "com">>),
     Text("bob", <<"notqq", "com">>),
     Text("bob", <<"evil", "com">>)}

\* the links that occur in the mails
Links ==
    [qq |-> Url(<<"qq", "com">>, FALSE),
     mail_qq |-> Url(<<"mail", "QQ", "com">>, FALSE),
     not_qq |-> Url(<<"notqq", "com">>, FALSE),
     evil |-> Url(<<"evil", "com">>, FALSE),
     evil_image |-> Url(<<"evil", "com">>, TRUE)]

\* the links of the HTML part and of the text part of a mail
LinkPairs ==
    {<< {}, {} >>,
     << {Links.qq}, {} >>,
     << {}, {Links.mail_qq} >>,
     << {Links.qq}, {Links.evil} >>,
     << {Links.qq, Links.evil_image}, {} >>,
     << {Links.evil_image}, {} >>,
     << {Links.not_qq}, {Links.qq} >>}

\* mails that differ in what the detectors see; the probability counts
\* only with the model loaded, the URL findings only with the long-URL
\* detection enabled
DetectorMails ==
    {m \in {Mail(Text("bob", <<"evil", "com">>),
                 IF urls.has_html THEN {Links.evil} ELSE {},
                 IF urls.long_text \/ urls.suspicious_text
                   THEN {Links.evil} ELSE {},
                 en, loaded, ml, urls) :
               en \in BOOLEAN, loaded \in BOOLEAN, ml \in MlScores,
               urls \in UrlFindings} :
        /\ ~m.ml_loaded => m.ml = 0
        /\ ~m.long_url_enabled => m.urls = NoUrls}

\* mails that differ in what the whitelists see; the classifier finds them
\* dangerous
WhitelistMails ==
    {Mail(sender, links[1], links[2], TRUE, TRUE, 99999,
          Urls(FALSE, FALSE, links[1] # {}, FALSE, FALSE, FALSE)) :
        sender \in Senders, links \in LinkPairs}

Mails == DetectorMails \cup WhitelistMails

\* mails the detections of SpecSync see
SyncMails ==
    {Mail(Text("bob", <<"evil", "com">>), {}, {}, TRUE, TRUE, 99999, NoUrls)}

\* EmailCrud.update_phishing_result
update_phishing_result(table, message, result) ==
    IF message \in DOMAIN table
    THEN [table EXCEPT ![message].phishing_level = result.level,
                       ![message].phishing_score = result.score,
                       ![message].phishing_status = "COMPLETED"]
    ELSE table

\* PhishingDetectionService._map_phishing_level
map_phishing_level(level) ==
    IF level \in {"NORMAL", "SUSPICIOUS", "HIGH_RISK"} THEN level ELSE "NORMAL"

\* _detect_and_update_single: get_by_id, detect, update_phishing_result;
\* result is what its call of _check_whitelist_and_detect returns
detect_and_update_single(table, rows, email_id, result) ==
    IF \E r \in rows : r.id = email_id
    THEN LET row == CHOOSE r \in rows : r.id = email_id
         IN update_phishing_result(table, row.message,
                [level |-> map_phishing_level(result.level),
                 score |-> result.score])
    ELSE table

\* EmailCrud.get_all_email_ids
get_all_email_ids(rows) == SortedSeq({r.id : r \in rows})

(***************************************************************************)
(* Background detection                                                    *)
(***************************************************************************)
\* detect_emails_async: asyncio.create_task(_detect_and_update_batch(ids))
detect_emails_async(tasks, email_ids) == Append(tasks, email_ids)

\* the rules a matcher holds once it has been asked: loaded from the table
\* when it held none
rules_on_demand(cached, table, asked) ==
    IF asked /\ ~cached.loaded THEN refresh_rules(table) ELSE cached

\* record of a _check_whitelist_and_detect call: the message, what the
\* active rules of the tables say about its sender and its URLs, the
\* long-URL setting and the state of the classifier, what each detector
\* says about the mail, and the result with the detectors that ran
DetectionRecord(message, mail, result) ==
    [called |-> TRUE,
     message |-> message,
     sender_active |-> is_sender_whitelisted(
                           get_all_active(sender_whitelist), mail.sender),
     has_urls |-> collect_urls(mail) # {},
     urls_active |-> \A url \in collect_urls(mail) :
                        is_url_whitelisted(get_all_active(url_whitelist), url),
     long_url_enabled |-> mail.long_url_enabled,
     ml_loaded |-> mail.ml_loaded,
     ml |-> [level |-> ml_detect(mail).level, score |-> ml_detect(mail).score],
     url |-> [level |-> url_detect(mail).level,
              score |-> url_detect(mail).score],
     level |-> result.level,
     score |-> result.score,
     ran |-> result.ran]

\* one iteration of the loop of _detect_and_update_batch, in any live task
DetectStepWith(mails) ==
    \E t \in DOMAIN detection_tasks :
      \E found \in {\E r \in mailbox_messages :
                       r.id = Head(detection_tasks[t])} :
        \E mail \in mails :
          \E sender_cache \in
                {rules_on_demand(sender_cached_rules, sender_whitelist,
                                 found /\ sender_reads_rules(mail.sender))} :
            \E url_cache \in
                {rules_on_demand(url_cached_rules, url_whitelist,
                    /\ found
                    /\ ~is_sender_whitelisted(sender_cache.rules, mail.sender)
                    /\ collect_urls(mail) # {})} :
              \E result \in {check_whitelist_and_detect(
                                 mail, sender_cache.rules, url_cache.rules)} :
                LET email_id == Head(detection_tasks[t])
                    rest == Tail(detection_tasks[t])
                IN /\ email_messages' = detect_and_update_single(
                           email_messages, mailbox_messages, email_id, result)
                   /\ sender_cached_rules' = sender_cache
                   /\ url_cached_rules' = url_cache
                   /\ last_detection' =
                         IF found
                         THEN DetectionRecord(
                                (CHOOSE r \in mailbox_messages :
                                    r.id = email_id).message,
                                mail, result)
                         ELSE last_detection
                   /\ detection_tasks' =
                         IF rest = <<>>
                         THEN [i \in 1..(Len(detection_tasks) - 1) |->
                                  IF i < t THEN detection_tasks[i]
                                  ELSE detection_tasks[i + 1]]
                         ELSE [detection_tasks EXCEPT ![t] = rest]
                   /\ UNCHANGED << evvars, extvars, sender_whitelist, url_whitelist,
                                   mailboxes, mailbox_messages, next_row_id,
                                   email_bodies, email_recipients, srvvars,
                                   syncvars, last_save, sync_log, budget >>

(***************************************************************************)
(* A detection batch from its start to its batch-completed events          *)
(***************************************************************************)
\* the task detect_emails_async creates: the loop position, the user_ids
\* set of _detect_and_update_batch, and, as history, what happened to each
\* id and the events the task published
Batch(email_ids) ==
    [email_ids |-> email_ids, next |-> 1, user_ids |-> {}, pc |-> "loop",
     processed |-> <<>>, events |-> <<>>]

\* the for loop of _detect_and_update_batch moves to the next id, or to
\* the finally clause after the last one
loop_continues(task) ==
    IF task.next < Len(task.email_ids)
    THEN [task EXCEPT !.next = @ + 1]
    ELSE [task EXCEPT !.next = @ + 1, !.pc = "finally"]

\* variant of the exception handling with the try around the whole loop:
\* the first exception ends the loop
on_exception_leaves_loop(task, email_id) ==
    [task EXCEPT
        !.processed = Append(@, [email_id |-> email_id, outcome |-> "raised"]),
        !.pc = "finally"]

\* except Exception inside the loop: the error is logged and the loop goes on
on_exception(task, email_id) ==
    loop_continues(
        [task EXCEPT !.processed =
            Append(@, [email_id |-> email_id, outcome |-> "raised"])])

\* get_by_id found no row: _detect_and_update_single returns None
on_missing(task, email_id) ==
    loop_continues(
        [task EXCEPT !.processed =
            Append(@, [email_id |-> email_id, outcome |-> "missing"])])

\* _detect_and_update_single returned user_id after it stored the result
\* and published the update
on_detected(task, email_id, user_id, level) ==
    loop_continues(
        [task EXCEPT
            !.processed = Append(@, [email_id |-> email_id,
                                     outcome |-> "updated"]),
            !.user_ids = @ \cup {user_id},
            !.events = Append(@, [user_id |-> user_id,
                                  event |-> "phishing_update",
                                  email_id |-> email_id,
                                  level |-> level])])

\* one publish on the event state ev = [queues, published]
after_publish(ev, user_id, event) ==
    LET message == format_sse(event, Len(ev.published) + 1)
    IN [queues |-> broadcast_in(ev.queues, user_id, message),
        published |-> Append(ev.published,
                         [user_id |-> user_id, message |-> message,
                          queues |-> Range(connections[user_id])])]

\* the mails the messages of a batch turn out to be
BatchMails ==
    {Mail(Text("bob", <<"evil", "com">>), {}, {}, TRUE, TRUE, ml, NoUrls) :
        ml \in {0, 99999}}

\* detect_emails_async(email_ids): a new task
BatchSubmit ==
    \E email_ids \in {ids \in UNION {[1..n -> 1..(MaxRowId + 1)] : n \in 1..2} :
                         \A i, j \in DOMAIN ids : ids[i] = ids[j] => i = j} :
        /\ Len(batches) < MaxSubmissions
        /\ Cardinality({b \in DOMAIN batches : batches[b].pc # "done"}) < MaxTasks
        /\ batches' = Append(batches, Batch(email_ids))
        /\ UNCHANGED << account_user, streamvars, restvars, evvars, wlvars, mailvars >>

\* one iteration of the loop of _detect_and_update_batch in which
\* _detect_and_update_single raises: nothing is stored or published
BatchIterationRaises ==
    \E b \in DOMAIN batches :
        /\ batches[b].pc = "loop"
        /\ budget.faults < MaxFaults
        /\ budget' = [budget EXCEPT !.faults = @ + 1]
        /\ batches' = [batches EXCEPT ![b] =
              on_exception(@, batches[b].email_ids[batches[b].next])]
        /\ UNCHANGED << account_user, streamvars, restvars, evvars, wlvars, srvvars, dbvars,
                        syncvars, detection_tasks, last_save, sync_log >>

\* one iteration of the loop of _detect_and_update_batch in which
\* _detect_and_update_single returns
BatchIteration ==
    \E b \in DOMAIN batches :
      /\ batches[b].pc = "loop"
      /\ LET task == batches[b]
             email_id == task.email_ids[task.next]
         IN IF ~\E r \in mailbox_messages : r.id = email_id
            THEN /\ batches' = [batches EXCEPT ![b] = on_missing(@, email_id)]
                 /\ UNCHANGED << email_messages, queues, published, wlvars >>
            ELSE
              \E mail \in BatchMails :
                \E sender_cache \in
                    {rules_on_demand(sender_cached_rules, sender_whitelist,
                                     sender_reads_rules(mail.sender))} :
                  \E url_cache \in
                      {rules_on_demand(url_cached_rules, url_whitelist,
                          /\ ~is_sender_whitelisted(sender_cache.rules,
                                                    mail.sender)
                          /\ collect_urls(mail) # {})} :
                    \E result \in {check_whitelist_and_detect(
                                     mail, sender_cache.rules, url_cache.rules)} :
                      LET message == (CHOOSE r \in mailbox_messages :
                                         r.id = email_id).message
                          user_id == account_user[message]
                          ev == after_publish(
                                    [queues |-> queues, published |-> published],
                                    user_id, "phishing_update")
                      IN /\ email_messages' = detect_and_update_single(
                                email_messages, mailbox_messages, email_id,
                                result)
                         /\ sender_cached_rules' = sender_cache
                         /\ url_cached_rules' = url_cache
                         /\ last_detection' =
                               DetectionRecord(message, mail, result)
                         /\ queues' = ev.queues
                         /\ published' = ev.published
                         /\ batches' = [batches EXCEPT ![b] =
                               on_detected(@, email_id, user_id, result.level)]
                         /\ UNCHANGED << sender_whitelist, url_whitelist >>
      /\ UNCHANGED << account_user, streamvars, restvars, connections, dequeued, mailboxes,
                      mailbox_messages, next_row_id, email_bodies,
                      email_recipients, srvvars, syncvars, detection_tasks,
                      last_save, sync_log, budget >>

\* the publishes of _notify_batch_completed for the users in order
RECURSIVE notify_batch_completed(_, _)
notify_batch_completed(ev, order) ==
    IF order = <<>> THEN ev
    ELSE notify_batch_completed(
             after_publish(ev, Head(order), "phishing_batch_completed"),
             Tail(order))

\* the finally clause of _detect_and_update_batch:
\* _notify_batch_completed(user_ids, len(email_ids)); the set is iterated
\* in some order
BatchFinally ==
    \E b \in DOMAIN batches :
      /\ batches[b].pc = "finally"
      /\ \E order \in {o \in [1..Cardinality(batches[b].user_ids) ->
                                 batches[b].user_ids] :
                          \A i, j \in DOMAIN o : o[i] = o[j] => i = j} :
           \E ev \in {notify_batch_completed(
                         [queues |-> queues, published |-> published], order)} :
             /\ queues' = ev.queues
             /\ published' = ev.published
             /\ batches' = [batches EXCEPT
                   ![b].pc = "done",
                   ![b].events = @ \o
                       [i \in DOMAIN order |->
                           [user_id |-> order[i],
                            event |-> "phishing_batch_completed",
                            total |-> Len(batches[b].email_ids)]]]
      /\ UNCHANGED << account_user, streamvars, restvars, connections, dequeued, wlvars, mailvars >>

\* rule_type and rule_value of the rules the operator writes
SenderRuleChoices ==
    {<< "EMAIL", Text("alice", <<"qq", "com">>) >>,
     << "DOMAIN", Text("", <<"qq", "com">>) >>,
     << "DOMAIN-SUFFIX", Text("", <<"QQ", "com">>) >>,
     << "DOMAIN-KEYWORD", Text("", <<"qq">>) >>}

UrlRuleChoices ==
    {<< "DOMAIN", Text("", <<"qq", "com">>) >>,
     << "DOMAIN-SUFFIX", Text("", <<"qq", "com">>) >>,
     << "DOMAIN-KEYWORD", Text("", <<"qq">>) >>}

\* SenderWhitelistCrud.create and UrlWhitelistCrud.create: is_active
\* defaults to True
create_rule(table, rule_type, rule_value) ==
    table \cup {Rule(IF table = {} THEN 1
                     ELSE MaxOf({rule.id : rule \in table}) + 1,
                     rule_type, rule_value, TRUE)}

\* the arguments of update that can be None
NoChange == << "None", NoText >>

\* SenderWhitelistCrud.update and UrlWhitelistCrud.update
update_rule(table, rule_id, type_and_value, set_active, is_active) ==
    {IF rule.id = rule_id
       THEN [rule EXCEPT
               !.rule_type = IF type_and_value = NoChange THEN @
                             ELSE type_and_value[1],
               !.rule_value = IF type_and_value = NoChange THEN @
                              ELSE type_and_value[2],
               !.is_active = IF set_active THEN is_active ELSE @]
       ELSE rule : rule \in table}

\* SenderWhitelistCrud.delete and UrlWhitelistCrud.delete
delete_rule(table, rule_id) == {rule \in table : rule.id # rule_id}

\* what an operation on the sender rules leaves alone
SenderRulesOnly ==
    UNCHANGED << mailvars, evvars, extvars, url_whitelist, sender_cached_rules,
                 url_cached_rules, last_detection >>

\* what an operation on the URL rules leaves alone
UrlRulesOnly ==
    UNCHANGED << mailvars, evvars, extvars, sender_whitelist, sender_cached_rules,
                 url_cached_rules, last_detection >>

\* AdminService.create_sender_whitelist_rule
create_sender_whitelist_rule ==
    \E choice \in SenderRuleChoices :
        /\ Cardinality(sender_whitelist) < MaxRules
        /\ sender_whitelist' =
              create_rule(sender_whitelist, choice[1], choice[2])
        /\ SenderRulesOnly

\* AdminService.update_sender_whitelist_rule
update_sender_whitelist_rule ==
    \E rule \in sender_whitelist :
      \E choice \in SenderRuleChoices \cup {NoChange} :
        \E set_active \in BOOLEAN :
            /\ sender_whitelist' =
                  update_rule(sender_whitelist, rule.id, choice, set_active,
                              ~rule.is_active)
            /\ SenderRulesOnly

\* AdminService.delete_sender_whitelist_rule
delete_sender_whitelist_rule ==
    \E rule \in sender_whitelist :
        /\ sender_whitelist' = delete_rule(sender_whitelist, rule.id)
        /\ SenderRulesOnly

\* AdminService.create_whitelist_rule
create_whitelist_rule ==
    \E choice \in UrlRuleChoices :
        /\ Cardinality(url_whitelist) < MaxRules
        /\ url_whitelist' = create_rule(url_whitelist, choice[1], choice[2])
        /\ UrlRulesOnly

\* AdminService.update_whitelist_rule
update_whitelist_rule ==
    \E rule \in url_whitelist :
      \E choice \in UrlRuleChoices \cup {NoChange} :
        \E set_active \in BOOLEAN :
            /\ url_whitelist' =
                  update_rule(url_whitelist, rule.id, choice, set_active,
                              ~rule.is_active)
            /\ UrlRulesOnly

\* AdminService.delete_whitelist_rule
delete_whitelist_rule ==
    \E rule \in url_whitelist :
        /\ url_whitelist' = delete_rule(url_whitelist, rule.id)
        /\ UrlRulesOnly

\* AdminService.redetect_all_emails
redetect_all_emails ==
    LET email_ids == get_all_email_ids(mailbox_messages)
    IN /\ Len(email_ids) > 0
       /\ Len(detection_tasks) < MaxTasks
       /\ detection_tasks' = detect_emails_async(detection_tasks, email_ids)
       /\ UNCHANGED << othervars, dbvars, srvvars, syncvars, last_save, sync_log, budget >>

(***************************************************************************)
(* SpecSync: EmailAccountService.sync_emails against a changing server     *)
(***************************************************************************)
NoStatus == [uid_validity |-> NULL, uid_next |-> NULL]

\* index of the next folder of the LIST response that is not \NOSELECT, or 0
RECURSIVE NextFolder(_)
NextFolder(i) ==
    IF i >= Len(Mailboxes) THEN 0
    ELSE IF Mailboxes[i + 1].attributes = "\\NOSELECT" THEN NextFolder(i + 1)
    ELSE i + 1

CurrentName == Mailboxes[folder_index].name

InitSync ==
    /\ srv_uid_validity = [n \in SelectableNames |-> 1]
    /\ srv_messages = [n \in SelectableNames |-> {}]
    /\ srv_uid_next = [n \in SelectableNames |-> 1]
    /\ mailboxes = [n \in SelectableNames |-> NoMailbox]
    /\ mailbox_messages = {}
    /\ next_row_id = 1
    /\ email_messages = <<>>
    /\ email_bodies = <<>>
    /\ email_recipients = <<>>
    /\ IdleSync
    /\ detection_tasks = <<>>
    /\ last_save = NoCall
    /\ sync_log = NoSyncLog
    /\ budget = [syncs |-> 0, faults |-> 0, server |-> 0]
    /\ InitOther

\* the sync ends: its local variables are gone
EndSync(result) ==
    /\ pc' = "idle"
    /\ folder_index' = 0
    /\ status' = NoStatus
    /\ uid_changed' = FALSE
    /\ last_uid' = 0
    /\ start_uid' = 0
    /\ uids' = <<>>
    /\ payloads' = <<>>
    /\ new_email_ids' = <<>>
    /\ selected' = ""
    /\ sync_log' = [sync_log EXCEPT
          !.result = result,
          !.store_failed = IF result = "aborted" /\ pc \in {"save", "cursor"}
                           THEN @ \cup {CurrentName} ELSE @]

\* the for loop over the folders moves on from folder i
GoToFolderAfter(i) ==
    /\ folder_index' = NextFolder(i)
    /\ pc' = IF NextFolder(i) = 0 THEN "finish" ELSE "status"
    /\ status' = NoStatus
    /\ uid_changed' = FALSE
    /\ last_uid' = 0
    /\ start_uid' = 0
    /\ uids' = <<>>
    /\ payloads' = <<>>
    /\ new_email_ids' = <<>>

\* sync_emails up to list_mailboxes
SyncStart ==
    /\ pc = "idle"
    /\ budget.syncs < MaxSyncs
    /\ budget' = [budget EXCEPT !.syncs = @ + 1]
    /\ sync_log' = [NoSyncLog EXCEPT !.result = "running"]
    /\ selected' = ""
    /\ GoToFolderAfter(0)
    /\ UNCHANGED << othervars, srvvars, dbvars, detection_tasks, last_save >>

\* get_mailbox_status: the STATUS answer, or all fields None
SyncStatus ==
    /\ pc = "status"
    /\ \E ok \in BOOLEAN :
          /\ ~ok => budget.faults < MaxFaults
          /\ status' = IF ok
                        THEN [uid_validity |-> srv_uid_validity[CurrentName],
                              uid_next |-> srv_uid_next[CurrentName]]
                        ELSE NoStatus
          /\ budget' = IF ok THEN budget ELSE [budget EXCEPT !.faults = @ + 1]
    /\ pc' = "upsert"
    /\ UNCHANGED << othervars, srvvars, dbvars, folder_index, uid_changed, last_uid,
                    start_uid, uids, payloads, new_email_ids, selected,
                    detection_tasks, last_save, sync_log >>

\* upsert_mailbox, and last_uid = mailbox_entity.last_uid or 0
SyncUpsert ==
    /\ pc = "upsert"
    /\ \E res \in {upsert_mailbox(mailboxes, CurrentName, status.uid_validity)} :
          /\ mailboxes' = res.table
          /\ uid_changed' = res.uid_changed
          /\ last_uid' = res.table[CurrentName].last_uid
          /\ pc' = IF res.uid_changed THEN "reset" ELSE "select"
    /\ UNCHANGED << othervars, srvvars, mailbox_messages, next_row_id, email_messages,
                    email_bodies, email_recipients, folder_index, status,
                    start_uid, uids, payloads, new_email_ids, selected,
                    detection_tasks, last_save, sync_log, budget >>

\* if uid_changed: reset_mailbox_messages
SyncReset ==
    /\ pc = "reset"
    /\ mailbox_messages' = reset_mailbox_messages(mailbox_messages, CurrentName)
    /\ pc' = "select"
    /\ UNCHANGED << othervars, srvvars, mailboxes, next_row_id, email_messages,
                    email_bodies, email_recipients, folder_index, status,
                    uid_changed, last_uid, start_uid, uids, payloads,
                    new_email_ids, selected, detection_tasks, last_save,
                    sync_log, budget >>

\* select_mailbox: on success the folder is selected, on failure no folder
\* is; the result is not looked at
SyncSelect ==
    /\ pc = "select"
    /\ \E ok \in BOOLEAN :
          /\ ~ok => budget.faults < MaxFaults
          /\ selected' = IF ok THEN CurrentName ELSE ""
          /\ sync_log' = IF ok THEN sync_log
                         ELSE [sync_log EXCEPT !.select_failed =
                                                  @ \cup {CurrentName}]
          /\ budget' = IF ok THEN budget ELSE [budget EXCEPT !.faults = @ + 1]
    /\ pc' = "search"
    /\ UNCHANGED << othervars, srvvars, dbvars, folder_index, status, uid_changed,
                    last_uid, start_uid, uids, payloads, new_email_ids,
                    detection_tasks, last_save >>

\* start_uid and fetch_uids_since(start_uid)
SyncSearch ==
    /\ pc = "search"
    /\ start_uid' = compute_start_uid(last_uid, status.uid_next)
    /\ uids' = fetch_uids_since(selected, start_uid')
    /\ sync_log' = [sync_log EXCEPT !.searched = @ \cup {CurrentName}]
    /\ pc' = IF uids' = <<>> THEN "no_uids" ELSE "fetch"
    /\ UNCHANGED << othervars, srvvars, dbvars, folder_index, status, uid_changed,
                    last_uid, payloads, new_email_ids, selected,
                    detection_tasks, last_save, budget >>

\* if not uids: update_sync_state(mailbox_entity.id, last_uid); continue
SyncNoUids ==
    /\ pc = "no_uids"
    /\ mailboxes' = update_sync_state(mailboxes, CurrentName, last_uid)
    /\ GoToFolderAfter(folder_index)
    /\ UNCHANGED << othervars, srvvars, mailbox_messages, next_row_id, email_messages,
                    email_bodies, email_recipients, selected, detection_tasks,
                    last_save, sync_log, budget >>

\* after the last chunk of a folder: if new_email_ids: detect_emails_async
FolderDone(ids) ==
    /\ ids # <<>> => Len(detection_tasks) < MaxTasks
    /\ detection_tasks' = IF ids # <<>>
                          THEN detect_emails_async(detection_tasks, ids)
                          ELSE detection_tasks
    /\ sync_log' = IF ids # <<>>
                   THEN [sync_log EXCEPT !.submitted = Append(@, ids)]
                   ELSE sync_log
    /\ GoToFolderAfter(folder_index)

\* fetch_emails_by_uid(chunk) and _build_payloads; if not payloads: continue
SyncFetch ==
    /\ pc = "fetch"
    /\ \E got \in SUBSET Range(chunk_list(uids, ChunkSize)[1]) :
        \E built \in {build_payloads(selected,
                                     chunk_list(uids, ChunkSize)[1], got)} :
          /\ got # Range(chunk_list(uids, ChunkSize)[1]) =>
                budget.faults < MaxFaults
          /\ budget' = IF got = Range(chunk_list(uids, ChunkSize)[1])
                        THEN budget
                        ELSE [budget EXCEPT !.faults = @ + 1]
          /\ IF built # <<>>
             THEN /\ payloads' = built
                  /\ pc' = "save"
                  /\ sync_log' = [sync_log EXCEPT
                                     !.fetched = @ \cup {CurrentName}]
                  /\ UNCHANGED << folder_index, status, uid_changed, last_uid,
                                  start_uid, uids, new_email_ids,
                                  detection_tasks >>
             ELSE IF AfterFirstChunk(uids) # <<>>
             THEN /\ uids' = AfterFirstChunk(uids)
                  /\ UNCHANGED << pc, payloads, sync_log, folder_index,
                                  status, uid_changed, last_uid, start_uid,
                                  new_email_ids, detection_tasks >>
             ELSE FolderDone(new_email_ids)
    /\ UNCHANGED << othervars, srvvars, dbvars, selected, last_save >>

\* save_mailbox_emails(account_id, mailbox_entity.id, payloads); an
\* exception of the flush leaves sync_emails through its finally clause
SyncSave ==
    /\ pc = "save"
    /\ \E res \in {save_mailbox_emails(DB, CurrentName, payloads)} :
          /\ res.db.next_row_id <= MaxRowId + 1
          /\ mailbox_messages' = res.db.mailbox_messages
          /\ next_row_id' = res.db.next_row_id
          /\ email_messages' = res.db.email_messages
          /\ email_bodies' = res.db.email_bodies
          /\ email_recipients' = res.db.email_recipients
          /\ last_save' = SaveRecord(DB, CurrentName, payloads, res)
          /\ IF res.ok
             THEN /\ new_email_ids' = new_email_ids \o res.ids
                  /\ pc' = "cursor"
                  /\ sync_log' = [sync_log EXCEPT
                        !.saved = @ \cup {CurrentName},
                        !.reported = @ \cup Range(res.ids)]
                  /\ UNCHANGED << folder_index, status, uid_changed, last_uid,
                                  start_uid, uids, payloads, selected >>
             ELSE EndSync("aborted")
    /\ UNCHANGED << othervars, srvvars, mailboxes, detection_tasks, budget >>

\* update_sync_state(mailbox_entity.id, max(chunk)), then the next chunk or
\* the end of the folder
SyncCursor ==
    /\ pc = "cursor"
    /\ mailboxes' = update_sync_state(mailboxes, CurrentName,
                                      MaxOf(Range(chunk_list(uids, ChunkSize)[1])))
    /\ IF AfterFirstChunk(uids) # <<>>
       THEN /\ uids' = AfterFirstChunk(uids)
            /\ payloads' = <<>>
            /\ pc' = "fetch"
            /\ UNCHANGED << folder_index, status, uid_changed, last_uid,
                            start_uid, new_email_ids, detection_tasks,
                            sync_log >>
       ELSE FolderDone(new_email_ids)
    /\ UNCHANGED << othervars, srvvars, mailbox_messages, next_row_id, email_messages,
                    email_bodies, email_recipients, selected, last_save,
                    budget >>

\* update_last_sync and the success result
SyncFinish ==
    /\ pc = "finish"
    /\ EndSync("completed")
    /\ UNCHANGED << othervars, srvvars, dbvars, detection_tasks, last_save, budget >>

\* an awaited IMAP or database call raises (connection lost, timeout): the
\* exception leaves sync_emails through its finally clause
SyncAbort ==
    /\ pc \notin {"idle"}
    /\ budget.faults < MaxFaults
    /\ budget' = [budget EXCEPT !.faults = @ + 1, !.syncs = @ - 1]
    /\ EndSync("aborted")
    /\ UNCHANGED << othervars, srvvars, dbvars, detection_tasks, last_save >>

SyncDetectStep == DetectStepWith(SyncMails)

NextSync ==
    \/ ServerDeliver \/ ServerExpunge \/ ServerNewValidity
    \/ SyncStart \/ SyncStatus \/ SyncUpsert \/ SyncReset \/ SyncSelect
    \/ SyncSearch \/ SyncNoUids \/ SyncFetch \/ SyncSave \/ SyncCursor
    \/ SyncFinish \/ SyncAbort
    \/ SyncDetectStep \/ redetect_all_emails

SpecSync == InitSync /\ [][NextSync]_vars

(***************************************************************************)
(* SpecDetect: the detection pipeline on the messages of a first sync      *)
(***************************************************************************)
\* the state after a first sync of a Sent folder holding UIDs 1 and 2, with
\* its detection batch submitted and not yet started
FirstSyncDone ==
    /\ srv_uid_validity = [n \in SelectableNames |-> 1]
    /\ srv_messages = [n \in SelectableNames |->
                         IF n = "Sent" THEN {1, 2} ELSE {}]
    /\ srv_uid_next = [n \in SelectableNames |-> IF n = "Sent" THEN 3 ELSE 1]
    /\ \E first \in {save_mailbox_emails(
                        [mailboxes |-> [n \in SelectableNames |->
                              [exists |-> TRUE, uid_validity |-> 1,
                               last_uid |-> 0]],
                         mailbox_messages |-> {},
                         next_row_id |-> 1,
                         email_messages |-> <<>>,
                         email_bodies |-> <<>>,
                         email_recipients |-> <<>>],
                        "Sent",
                        << Payload("Sent", 1, StoreMessageId("Sent", 1), <<>>),
                           Payload("Sent", 2, StoreMessageId("Sent", 2), <<>>) >>)} :
          /\ mailboxes = update_sync_state(first.db.mailboxes, "Sent", 2)
          /\ mailbox_messages = first.db.mailbox_messages
          /\ next_row_id = first.db.next_row_id
          /\ email_messages = first.db.email_messages
          /\ email_bodies = first.db.email_bodies
          /\ email_recipients = first.db.email_recipients
          /\ detection_tasks = detect_emails_async(<<>>, first.ids)
          /\ sync_log = [NoSyncLog EXCEPT !.result = "completed",
                                          !.searched = SelectableNames,
                                          !.fetched = {"Sent"},
                                          !.saved = {"Sent"},
                                          !.reported = Range(first.ids),
                                          !.submitted = << first.ids >>]
    /\ IdleSync
    /\ last_save = NoCall
    /\ budget = [syncs |-> 1, faults |-> 0, server |-> 2]

\* the rule tables of SpecDetect: sender rules and URL rules
WhitelistTables ==
    {<< {}, {} >>,
     << {Rule(1, "DOMAIN-SUFFIX", Text("", <<"QQ", "com">>), TRUE),
         Rule(2, "EMAIL", Text("bob", <<"evil", "com">>), FALSE)},
        {Rule(1, "DOMAIN-SUFFIX", Text("", <<"qq", "com">>), TRUE),
         Rule(2, "DOMAIN-KEYWORD", Text("", <<"evil">>), FALSE)} >>,
     << {Rule(1, "EMAIL", Text("alice", <<"qq", "com">>), TRUE)},
        {Rule(1, "DOMAIN", Text("", <<"qq", "com">>), TRUE),
         Rule(2, "DOMAIN-KEYWORD", Text("", <<"evil">>), TRUE)} >>}

InitDetect ==
    /\ FirstSyncDone
    /\ InitEventService
    /\ InitExt
    /\ \E tables \in WhitelistTables :
          /\ sender_whitelist = tables[1]
          /\ url_whitelist = tables[2]
    /\ sender_cached_rules = NotCached
    /\ url_cached_rules = NotCached
    /\ last_detection = NoDetection

DetectStep == DetectStepWith(Mails)

NextDetect == DetectStep \/ redetect_all_emails

SpecDetect == InitDetect /\ [][NextDetect]_vars

(***************************************************************************)
(* SpecWhitelist: the operator edits the whitelists while messages are     *)
(* detected                                                                *)
(***************************************************************************)
InitWhitelistEdit == FirstSyncDone /\ InitOther

\* the mails detected while the operator edits the rules
EditMails ==
    {Mail(sender, links[1], links[2], TRUE, TRUE, 99999,
          Urls(FALSE, FALSE, links[1] # {}, FALSE, FALSE, FALSE)) :
        sender \in {Text("alice", <<"mail", "qq", "com">>),
                    Text("bob", <<"evil", "com">>)},
        links \in {<< {}, {} >>, << {Links.qq}, {} >>}}

WhitelistDetectStep == DetectStepWith(EditMails)

NextWhitelist ==
    \/ create_sender_whitelist_rule \/ update_sender_whitelist_rule
    \/ delete_sender_whitelist_rule
    \/ create_whitelist_rule \/ update_whitelist_rule
    \/ delete_whitelist_rule
    \/ WhitelistDetectStep \/ redetect_all_emails

SpecWhitelist == InitWhitelistEdit /\ [][NextWhitelist]_vars

(***************************************************************************)
(* SpecBatch: detection batches over the messages of two users             *)
(***************************************************************************)
\* the two stored messages belong to accounts of any of the users, and
\* user 1 has one stream registered
InitBatch ==
    /\ FirstSyncDone
    /\ connections = [u \in Users |-> IF u = 1 THEN << 1 >> ELSE <<>>]
    /\ queues = << [user_id |-> 1, frames |-> <<>>] >>
    /\ published = <<>>
    /\ dequeued = << <<>> >>
    /\ streams = [q \in 1..MaxQueues |->
                     [pc |-> "check", disconnected |-> FALSE, late_turns |-> 0]]
    /\ connection_keys = {1}
    /\ InitList /\ InitMatch /\ InitPair /\ InitLate
    /\ InitWhitelist
    /\ account_user \in [1..MaxRowId -> Users]
    /\ batches = <<>>

NextBatch ==
    \/ BatchSubmit \/ BatchIteration \/ BatchIterationRaises \/ BatchFinally

SpecBatch == InitBatch /\ [][NextBatch]_vars

(***************************************************************************)
(* SpecOwner: detection batches publishing while streams of the two users  *)
(* register and unregister                                                 *)
(***************************************************************************)
NextOwner == NextBatch \/ register \/ unregister

SpecOwner == InitBatch /\ [][NextOwner]_vars

(***************************************************************************)
(* SpecEvents: publishers, SSE streams and their queues                    *)
(***************************************************************************)
InitEvents == InitSync

NextEvents ==
    \/ register \/ unregister \/ stream_events
    \/ publish_detection_update \/ publish_batch_completed

SpecEvents == InitEvents /\ [][NextEvents]_vars

(***************************************************************************)
(* SpecPair: two sync_emails calls for one account at the same time. The   *)
(* variables of syncvars and sync_log belong to the call that runs; those  *)
(* of the call that waits at an await are kept in syncs.parked. Each       *)
(* action is the code between two awaits, so Switch between any two        *)
(* actions gives every interleaving of the IMAP and database steps.        *)
(***************************************************************************)
\* what save_mailbox_emails reads at the start of its transaction
NoSnapshot == [taken |-> FALSE]

\* _load_existing_messages and _load_existing_mailbox_messages of a save
load_existing(db, mailbox_id, batch) ==
    [taken |-> TRUE,
     existing_messages |->
         load_existing_messages(db, {batch[i].message_id : i \in DOMAIN batch}),
     existing_uids |->
         {r.uid : r \in load_existing_mailbox_messages(
                            db, mailbox_id, {batch[i].uid : i \in DOMAIN batch})}]

\* the rest of save_mailbox_emails: the loop over the payloads with what
\* was read before, and the flush against the tables as they are now
save_after_load(db, snapshot, mailbox_id, batch) ==
    commit_session(db,
        save_loop([existing_messages |-> snapshot.existing_messages,
                   existing_uids |-> snapshot.existing_uids,
                   email_messages |-> db.email_messages,
                   email_bodies |-> db.email_bodies,
                   rows |-> db.mailbox_messages,
                   next_row_id |-> db.next_row_id,
                   new_messages |-> {},
                   new_bodies |-> <<>>,
                   new_recipients |-> <<>>,
                   new_mailbox_messages |-> <<>>,
                   message |-> 0],
                  mailbox_id, db.mailboxes[mailbox_id].uid_validity, batch))

\* the folders and the tables when the two calls start: Sent holds UID 1,
\* synced before, and INBOX is empty
PairStart ==
    [srv_messages |-> [n \in SelectableNames |->
                          IF n = "Sent" THEN {1} ELSE {}],
     srv_uid_next |-> [n \in SelectableNames |-> IF n = "Sent" THEN 2 ELSE 1],
     db |-> LET first == save_mailbox_emails(
                    [mailboxes |-> [n \in SelectableNames |->
                          [exists |-> TRUE, uid_validity |-> 1,
                           last_uid |-> 0]],
                     mailbox_messages |-> {},
                     next_row_id |-> 1,
                     email_messages |-> <<>>,
                     email_bodies |-> <<>>,
                     email_recipients |-> <<>>],
                    "Sent",
                    << Payload("Sent", 1, StoreMessageId("Sent", 1), <<>>) >>)
            IN [first.db EXCEPT
                  !.mailboxes = update_sync_state(@, "Sent", 1)]]

\* the local variables of a call that has not started
IdleLocals ==
    [pc |-> "idle", folder_index |-> 0, status |-> NoStatus,
     uid_changed |-> FALSE, last_uid |-> 0, start_uid |-> 0, uids |-> <<>>,
     payloads |-> <<>>, new_email_ids |-> <<>>, selected |-> "",
     sync_log |-> NoSyncLog, snapshot |-> NoSnapshot]

InitPairs ==
    /\ srv_uid_validity = [n \in SelectableNames |-> 1]
    /\ srv_messages = PairStart.srv_messages
    /\ srv_uid_next = PairStart.srv_uid_next
    /\ mailboxes = PairStart.db.mailboxes
    /\ mailbox_messages = PairStart.db.mailbox_messages
    /\ next_row_id = PairStart.db.next_row_id
    /\ email_messages = PairStart.db.email_messages
    /\ email_bodies = PairStart.db.email_bodies
    /\ email_recipients = PairStart.db.email_recipients
    /\ IdleSync
    /\ detection_tasks = <<>>
    /\ last_save = NoCall
    /\ sync_log = NoSyncLog
    /\ budget = [syncs |-> 0, faults |-> MaxFaults,
                 server |-> MaxServerSteps - 1]
    /\ InitEventService /\ InitWhitelist /\ InitBatches /\ InitStreams
    /\ InitList /\ InitMatch /\ InitLate
    /\ syncs = [started |-> TRUE, snapshot |-> NoSnapshot,
                parked |-> IdleLocals]

\* the event loop runs the other call: the running one waits at its await
Switch ==
    /\ syncs.started
    /\ pc' = syncs.parked.pc
    /\ folder_index' = syncs.parked.folder_index
    /\ status' = syncs.parked.status
    /\ uid_changed' = syncs.parked.uid_changed
    /\ last_uid' = syncs.parked.last_uid
    /\ start_uid' = syncs.parked.start_uid
    /\ uids' = syncs.parked.uids
    /\ payloads' = syncs.parked.payloads
    /\ new_email_ids' = syncs.parked.new_email_ids
    /\ selected' = syncs.parked.selected
    /\ sync_log' = syncs.parked.sync_log
    /\ syncs' = [started |-> TRUE,
                 snapshot |-> syncs.parked.snapshot,
                 parked |-> [pc |-> pc, folder_index |-> folder_index,
                             status |-> status, uid_changed |-> uid_changed,
                             last_uid |-> last_uid, start_uid |-> start_uid,
                             uids |-> uids, payloads |-> payloads,
                             new_email_ids |-> new_email_ids,
                             selected |-> selected, sync_log |-> sync_log,
                             snapshot |-> syncs.snapshot]]
    /\ UNCHANGED << srvvars, dbvars, detection_tasks, last_save, budget,
                    evvars, wlvars, batchvars, streamvars, listvars,
                    matchvars, latevars >>

\* a new message arrives in a folder before the second call has started
PairDeliver ==
    \E name \in SelectableNames :
        /\ syncs.started
        /\ budget.syncs < MaxSyncs
        /\ budget.server < MaxServerSteps
        /\ srv_uid_next[name] <= MaxUid
        /\ srv_messages' = [srv_messages EXCEPT ![name] =
              @ \cup {srv_uid_next[name]}]
        /\ srv_uid_next' = [srv_uid_next EXCEPT ![name] = @ + 1]
        /\ budget' = [budget EXCEPT !.server = @ + 1]
        /\ UNCHANGED << othervars, srv_uid_validity, dbvars, syncvars,
                        detection_tasks, last_save, sync_log >>

\* save_mailbox_emails up to its loop: the transaction reads the rows
\* that exist
PairSaveLoad ==
    /\ syncs.started
    /\ pc = "save"
    /\ syncs' = [syncs EXCEPT
                    !.snapshot = load_existing(DB, CurrentName, payloads)]
    /\ pc' = "commit"
    /\ UNCHANGED << srvvars, dbvars, folder_index, status, uid_changed,
                    last_uid, start_uid, uids, payloads, new_email_ids,
                    selected, detection_tasks, last_save, sync_log, budget,
                    evvars, wlvars, batchvars, streamvars, listvars,
                    matchvars, latevars >>

\* the loop, the flush and the commit of save_mailbox_emails; an
\* IntegrityError of the flush leaves sync_emails through its finally clause
PairSaveCommit ==
    /\ syncs.started
    /\ pc = "commit"
    /\ \E res \in {save_after_load(DB, syncs.snapshot, CurrentName, payloads)} :
          /\ res.db.next_row_id <= MaxRowId + 1
          /\ mailbox_messages' = res.db.mailbox_messages
          /\ next_row_id' = res.db.next_row_id
          /\ email_messages' = res.db.email_messages
          /\ email_bodies' = res.db.email_bodies
          /\ email_recipients' = res.db.email_recipients
          /\ last_save' = SaveRecord(DB, CurrentName, payloads, res)
          /\ IF res.ok
             THEN /\ new_email_ids' = new_email_ids \o res.ids
                  /\ pc' = "cursor"
                  /\ sync_log' = [sync_log EXCEPT
                        !.saved = @ \cup {CurrentName},
                        !.reported = @ \cup Range(res.ids)]
                  /\ UNCHANGED << folder_index, status, uid_changed, last_uid,
                                  start_uid, uids, payloads, selected >>
             ELSE EndSync("aborted")
    /\ syncs' = [syncs EXCEPT !.snapshot = NoSnapshot]
    /\ UNCHANGED << srvvars, mailboxes, detection_tasks, budget, evvars,
                    wlvars, batchvars, streamvars, listvars, matchvars,
                    latevars >>

NextPair ==
    \/ Switch \/ PairDeliver
    \/ SyncStart \/ SyncStatus \/ SyncUpsert \/ SyncSelect \/ SyncSearch
    \/ SyncNoUids \/ SyncFetch \/ PairSaveLoad \/ PairSaveCommit
    \/ SyncCursor \/ SyncFinish

SpecPair == InitPairs /\ [][NextPair]_vars

(***************************************************************************)
(* SystemSettingsService and SpecSettings: the cached long-URL switch read *)
(* by detections while the operator updates it. Each action is the code    *)
(* between two awaits of a call.                                           *)
(***************************************************************************)
\* the test of get_settings without force_refresh: the cache is used
cache_valid(st, now) == st.cached.exists /\ now < st.expires_at

\* SystemSettingsCrud.get_or_create_default
get_or_create_default(row) ==
    IF row.exists THEN row ELSE [exists |-> TRUE, enable |-> TRUE]

\* SystemSettingsCrud.update_settings with a value given
crud_update_settings(row, enable_long_url_detection) ==
    [exists |-> TRUE, enable |-> enable_long_url_detection]

\* self._cached_settings = settings; self._cache_expires_at = now + ttl
store_in_cache(st, value, now) ==
    [st EXCEPT !.cached = value, !.expires_at = now + CacheTtl]

\* a call of is_long_url_detection_enabled that is not running
NoGet == [pc |-> "idle", now |-> 0, value |-> NoSettings, epoch |-> 0,
          after_write |-> FALSE]

\* record of a finished is_long_url_detection_enabled call: what it
\* returned, whether it began after an update_settings call had returned
\* with no other update begun up to its return, and the value of that update
GetRecord(calls, epoch, after_write, value) ==
    [called |-> TRUE,
     value |-> value.enable,
     checked |-> after_write /\ calls.epoch = epoch,
     expected |-> calls.last_write.value]

InitSettingCalls ==
    /\ FirstSyncDone
    /\ InitEventService /\ InitWhitelist /\ InitBatches /\ InitStreams
    /\ InitList /\ InitMatch /\ InitPair /\ InitModel /\ InitResyncLog
    /\ settings = [row |-> NoSettings, cached |-> NoSettings,
                   expires_at |-> 0, clock |-> 0]
    /\ settings_calls = [started |-> TRUE,
                         gets |-> [g \in 1..MaxGets |-> NoGet],
                         update |-> [pc |-> "idle", value |-> FALSE],
                         epoch |-> 0,
                         last_write |-> [done |-> FALSE, value |-> FALSE],
                         last_get |-> [called |-> FALSE],
                         calls |-> 0]

SettingsOnly ==
    UNCHANGED << mailvars, evvars, wlvars, batchvars, streamvars, listvars,
                 matchvars, pairvars, modelvars, resync_log >>

\* time passes
Tick ==
    /\ settings_calls.started
    /\ settings.clock < MaxClock
    /\ settings' = [settings EXCEPT !.clock = @ + 1]
    /\ UNCHANGED settings_calls
    /\ SettingsOnly

\* is_long_url_detection_enabled begins: get_settings answers from the
\* cache, or goes to the database
IsEnabledStart(g) ==
    /\ settings_calls.started
    /\ settings_calls.gets[g].pc = "idle"
    /\ settings_calls.calls < MaxSettingCalls
    /\ LET after_write == /\ settings_calls.last_write.done
                          /\ settings_calls.update.pc = "idle"
       IN IF cache_valid(settings, settings.clock)
          THEN settings_calls' = [settings_calls EXCEPT
                  !.calls = @ + 1,
                  !.last_get = GetRecord(settings_calls, settings_calls.epoch,
                                         after_write, settings.cached)]
          ELSE settings_calls' = [settings_calls EXCEPT
                  !.calls = @ + 1,
                  !.gets[g] = [pc |-> "read", now |-> settings.clock,
                               value |-> NoSettings,
                               epoch |-> settings_calls.epoch,
                               after_write |-> after_write]]
    /\ UNCHANGED settings
    /\ SettingsOnly

\* the query of get_or_create_default
IsEnabledRead(g) ==
    /\ settings_calls.started
    /\ settings_calls.gets[g].pc = "read"
    /\ settings' = [settings EXCEPT !.row = get_or_create_default(@)]
    /\ settings_calls' = [settings_calls EXCEPT
          !.gets[g].pc = "store",
          !.gets[g].value = get_or_create_default(settings.row)]
    /\ SettingsOnly

\* get_settings after its await: the cache is set and the value returned
IsEnabledStore(g) ==
    /\ settings_calls.started
    /\ settings_calls.gets[g].pc = "store"
    /\ settings' = store_in_cache(settings, settings_calls.gets[g].value,
                                  settings_calls.gets[g].now)
    /\ settings_calls' = [settings_calls EXCEPT
          !.gets[g] = NoGet,
          !.last_get = GetRecord(settings_calls, settings_calls.gets[g].epoch,
                                 settings_calls.gets[g].after_write,
                                 settings_calls.gets[g].value)]
    /\ SettingsOnly

\* update_settings(enable_long_url_detection) begins
UpdateStart ==
    /\ settings_calls.started
    /\ settings_calls.update.pc = "idle"
    /\ settings_calls.epoch < MaxUpdates
    /\ \E enable_long_url_detection \in BOOLEAN :
          settings_calls' = [settings_calls EXCEPT
              !.epoch = @ + 1,
              !.update = [pc |-> "write",
                          value |-> enable_long_url_detection]]
    /\ UNCHANGED settings
    /\ SettingsOnly

\* SystemSettingsCrud.update_settings
UpdateWrite ==
    /\ settings_calls.started
    /\ settings_calls.update.pc = "write"
    /\ settings' = [settings EXCEPT
          !.row = crud_update_settings(@, settings_calls.update.value)]
    /\ settings_calls' = [settings_calls EXCEPT !.update.pc = "store"]
    /\ SettingsOnly

\* update_settings after its await: the cache is set and the call returns
UpdateStore ==
    /\ settings_calls.started
    /\ settings_calls.update.pc = "store"
    /\ settings' = store_in_cache(
          settings, [exists |-> TRUE, enable |-> settings_calls.update.value],
          settings.clock)
    /\ settings_calls' = [settings_calls EXCEPT
          !.update.pc = "idle",
          !.last_write = [done |-> TRUE, value |-> settings_calls.update.value]]
    /\ SettingsOnly

IsEnabledStarts == \E g \in 1..MaxGets : IsEnabledStart(g)
IsEnabledReads == \E g \in 1..MaxGets : IsEnabledRead(g)
IsEnabledStores == \E g \in 1..MaxGets : IsEnabledStore(g)

NextSettings ==
    \/ Tick \/ IsEnabledStarts \/ IsEnabledReads \/ IsEnabledStores
    \/ UpdateStart \/ UpdateWrite \/ UpdateStore

SpecSettings == InitSettingCalls /\ [][NextSettings]_vars

(***************************************************************************)
(* SpecReload: MLPhishingDetector.detect while reload_model runs.          *)
(* _try_load_model and _predict_sync run in threads of the executor, so    *)
(* their reads and writes of _model, _tfidf and _is_loaded interleave.     *)
(* A version of 0 stands for None.                                         *)
(***************************************************************************)
\* the probability the model and the vectorizer of the same version give
\* for the text of the mail; a model with the vectorizer of another
\* version gives any probability
predict_sync(model, tfidf) ==
    IF model = tfidf
    THEN {IF model = 1 THEN 99999 ELSE 60000}
    ELSE MlScores

\* what MLPhishingDetector.detect returns with the model of a version loaded
LoadedResult(version) ==
    {[level |-> ml_detect([ml_loaded |-> TRUE, ml |-> score]).level,
      score |-> ml_detect([ml_loaded |-> TRUE, ml |-> score]).score] :
        score \in predict_sync(version, version)}

\* the result of detect when the model is not loaded, and of its except
\* clause
DegradedResult ==
    [level |-> ml_detect([ml_loaded |-> FALSE, ml |-> 0]).level,
     score |-> ml_detect([ml_loaded |-> FALSE, ml |-> 0]).score]

NoDetect == [pc |-> "idle", tfidf |-> 0, versions |-> {}]

InitReload ==
    /\ FirstSyncDone
    /\ InitEventService /\ InitWhitelist /\ InitBatches /\ InitStreams
    /\ InitList /\ InitMatch /\ InitPair /\ InitSettings /\ InitResyncLog
    /\ ml_state = [is_loaded |-> TRUE, model |-> 1, tfidf |-> 1]
    /\ ml_calls = [started |-> TRUE,
                   reload |-> [pc |-> "idle", before |-> 0, target |-> 0],
                   detect |-> NoDetect,
                   reloads |-> 0,
                   detects |-> 0,
                   last_result |-> [called |-> FALSE]]

ModelOnly ==
    UNCHANGED << mailvars, evvars, wlvars, batchvars, streamvars, listvars,
                 matchvars, pairvars, setvars, resync_log >>

\* record of a finished detect: its result and the versions of the model
\* loaded when it began or by a reload_model that ran during it
DetectRecord(result, versions) ==
    [called |-> TRUE, level |-> result.level, score |-> result.score,
     versions |-> versions]

\* reload_model up to its await: _is_loaded = False, _model = None,
\* _tfidf = None; before is the version loaded until now, and the files
\* hold the model of version target
ReloadStart ==
    /\ ml_calls.started
    /\ ml_calls.reload.pc = "idle"
    /\ ml_calls.reloads < MaxReloads
    /\ \E target \in 1..MaxVersion :
          ml_calls' = [ml_calls EXCEPT
              !.reloads = @ + 1,
              !.reload = [pc |-> "load_model", before |-> ml_state.model,
                          target |-> target],
              !.detect.versions =
                  IF ml_calls.detect.pc = "idle" THEN @ ELSE @ \cup {target}]
    /\ ml_state' = [is_loaded |-> FALSE, model |-> 0, tfidf |-> 0]
    /\ ModelOnly

\* _try_load_model: self._model = _load_model_func(...)
ReloadModel ==
    /\ ml_calls.started
    /\ ml_calls.reload.pc = "load_model"
    /\ ml_state' = [ml_state EXCEPT !.model = ml_calls.reload.target]
    /\ ml_calls' = [ml_calls EXCEPT !.reload.pc = "load_vectorizer"]
    /\ ModelOnly

\* _load_vectorizer: self._tfidf = joblib.load(...)
ReloadVectorizer ==
    /\ ml_calls.started
    /\ ml_calls.reload.pc = "load_vectorizer"
    /\ ml_state' = [ml_state EXCEPT !.tfidf = ml_calls.reload.target]
    /\ ml_calls' = [ml_calls EXCEPT !.reload.pc = "set_loaded"]
    /\ ModelOnly

\* self._is_loaded = True, and reload_model returns
ReloadDone ==
    /\ ml_calls.started
    /\ ml_calls.reload.pc = "set_loaded"
    /\ ml_state' = [ml_state EXCEPT !.is_loaded = TRUE]
    /\ ml_calls' = [ml_calls EXCEPT
          !.reload = [pc |-> "idle", before |-> 0, target |-> 0]]
    /\ ModelOnly

\* the versions a detect that begins now may see
VersionsNow ==
    IF ml_calls.reload.pc = "idle" THEN {ml_state.model}
    ELSE {ml_calls.reload.before, ml_calls.reload.target}

\* detect up to its await: the degraded result when not _is_loaded
DetectStart ==
    /\ ml_calls.started
    /\ ml_calls.detect.pc = "idle"
    /\ ml_calls.detects < MaxDetects
    /\ IF ~ml_state.is_loaded
       THEN ml_calls' = [ml_calls EXCEPT
               !.detects = @ + 1,
               !.last_result = DetectRecord(DegradedResult, VersionsNow)]
       ELSE ml_calls' = [ml_calls EXCEPT
               !.detects = @ + 1,
               !.detect = [pc |-> "transform", tfidf |-> 0,
                           versions |-> VersionsNow]]
    /\ UNCHANGED ml_state
    /\ ModelOnly

\* _predict_sync: self._tfidf.transform([text]); with _tfidf None the
\* exception is caught by detect
DetectTransform ==
    /\ ml_calls.started
    /\ ml_calls.detect.pc = "transform"
    /\ IF ml_state.tfidf = 0
       THEN ml_calls' = [ml_calls EXCEPT
               !.detect = NoDetect,
               !.last_result = DetectRecord(DegradedResult,
                                            ml_calls.detect.versions)]
       ELSE ml_calls' = [ml_calls EXCEPT
               !.detect.pc = "predict",
               !.detect.tfidf = ml_state.tfidf]
    /\ UNCHANGED ml_state
    /\ ModelOnly

\* _predict_sync: self._model.predict(...), and the result of detect
DetectPredict ==
    /\ ml_calls.started
    /\ ml_calls.detect.pc = "predict"
    /\ IF ml_state.model = 0
       THEN ml_calls' = [ml_calls EXCEPT
               !.detect = NoDetect,
               !.last_result = DetectRecord(DegradedResult,
                                            ml_calls.detect.versions)]
       ELSE \E score \in predict_sync(ml_state.model, ml_calls.detect.tfidf) :
               ml_calls' = [ml_calls EXCEPT
                   !.detect = NoDetect,
                   !.last_result = DetectRecord(
                       ml_detect([ml_loaded |-> TRUE, ml |-> score]),
                       ml_calls.detect.versions)]
    /\ UNCHANGED ml_state
    /\ ModelOnly

NextReload ==
    \/ ReloadStart \/ ReloadModel \/ ReloadVectorizer \/ ReloadDone
    \/ DetectStart \/ DetectTransform \/ DetectPredict

SpecReload == InitReload /\ [][NextReload]_vars

(***************************************************************************)
(* SpecResync: syncs of an account synced before, whose folders receive    *)
(* messages and whose FETCH commands can fail                              *)
(***************************************************************************)
\* the chunk of this specification holds more than one UID, as the chunk of
\* 20 UIDs of sync_emails does
ResyncChunk == ChunkSize + 1

\* UIDs a folder can reach here: the stored one and a chunk of new ones
ResyncMaxUid == 1 + ResyncChunk

\* the state after an earlier completed sync (Sent held UID 1, INBOX held
\* nothing), with no delivery and no fetch recorded
InitResync ==
    /\ srv_uid_validity = [n \in SelectableNames |-> 1]
    /\ srv_messages = PairStart.srv_messages
    /\ srv_uid_next = PairStart.srv_uid_next
    /\ mailboxes = PairStart.db.mailboxes
    /\ mailbox_messages = PairStart.db.mailbox_messages
    /\ next_row_id = PairStart.db.next_row_id
    /\ email_messages = PairStart.db.email_messages
    /\ email_bodies = PairStart.db.email_bodies
    /\ email_recipients = PairStart.db.email_recipients
    /\ IdleSync
    /\ detection_tasks = <<>>
    /\ last_save = NoCall
    /\ sync_log = NoSyncLog
    /\ budget = [syncs |-> 0, faults |-> 0, server |-> 0]
    /\ InitEventService /\ InitWhitelist /\ InitBatches /\ InitStreams
    /\ InitList /\ InitMatch /\ InitPair /\ InitSettings /\ InitModel
    /\ resync_log = [started |-> TRUE, arrived |-> {}, requested |-> {},
                     failed |-> {}]

ResyncFrame ==
    UNCHANGED << evvars, wlvars, batchvars, streamvars, listvars, matchvars,
                 pairvars, setvars, modelvars >>

\* a new message arrives in a folder between two syncs; sync is the number
\* of the first sync that starts after the delivery
ResyncDeliver ==
    \E name \in SelectableNames :
        /\ pc = "idle"
        /\ budget.server < MaxServerSteps
        /\ srv_uid_next[name] <= ResyncMaxUid
        /\ srv_messages' = [srv_messages EXCEPT ![name] =
              @ \cup {srv_uid_next[name]}]
        /\ srv_uid_next' = [srv_uid_next EXCEPT ![name] = @ + 1]
        /\ budget' = [budget EXCEPT !.server = @ + 1]
        /\ resync_log' = [resync_log EXCEPT !.arrived = @ \cup
              {[folder |-> name, uid |-> srv_uid_next[name],
                sync |-> budget.syncs + 1]}]
        /\ ResyncFrame
        /\ UNCHANGED << srv_uid_validity, dbvars, syncvars, detection_tasks,
                        last_save, sync_log >>

\* the first chunk of _chunk_list(uids, 20)
ResyncFirstChunk == chunk_list(uids, ResyncChunk)[1]

\* the chunks after the first one, as one list again
ResyncAfterFirstChunk == SubSeq(uids, Len(ResyncFirstChunk) + 1, Len(uids))

\* fetch_emails_by_uid(chunk) and _build_payloads; if not payloads: continue.
\* A FETCH that does not answer OK leaves its UID out of the result.
ResyncFetch ==
    /\ pc = "fetch"
    /\ \E got \in SUBSET Range(ResyncFirstChunk) :
        \E built \in {build_payloads(selected, ResyncFirstChunk, got)} :
          /\ got # Range(ResyncFirstChunk) => budget.faults < MaxFaults
          /\ budget' = IF got = Range(ResyncFirstChunk)
                        THEN budget
                        ELSE [budget EXCEPT !.faults = @ + 1]
          /\ resync_log' = [resync_log EXCEPT
                !.requested = @ \cup
                    {[folder |-> CurrentName, uid |-> u,
                      sync |-> budget.syncs] : u \in Range(ResyncFirstChunk)},
                !.failed = @ \cup
                    {[folder |-> CurrentName, uid |-> u,
                      sync |-> budget.syncs, others |-> got] :
                        u \in Range(ResyncFirstChunk) \ got}]
          /\ IF built # <<>>
             THEN /\ payloads' = built
                  /\ pc' = "save"
                  /\ sync_log' = [sync_log EXCEPT
                                     !.fetched = @ \cup {CurrentName}]
                  /\ UNCHANGED << folder_index, status, uid_changed, last_uid,
                                  start_uid, uids, new_email_ids,
                                  detection_tasks >>
             ELSE IF ResyncAfterFirstChunk # <<>>
             THEN /\ uids' = ResyncAfterFirstChunk
                  /\ UNCHANGED << pc, payloads, sync_log, folder_index,
                                  status, uid_changed, last_uid, start_uid,
                                  new_email_ids, detection_tasks >>
             ELSE FolderDone(new_email_ids)
    /\ ResyncFrame
    /\ UNCHANGED << srvvars, dbvars, selected, last_save >>

\* update_sync_state(mailbox_entity.id, max(chunk)), then the next chunk or
\* the end of the folder
ResyncCursor ==
    /\ pc = "cursor"
    /\ mailboxes' = update_sync_state(mailboxes, CurrentName,
                                      MaxOf(Range(ResyncFirstChunk)))
    /\ IF ResyncAfterFirstChunk # <<>>
       THEN /\ uids' = ResyncAfterFirstChunk
            /\ payloads' = <<>>
            /\ pc' = "fetch"
            /\ UNCHANGED << folder_index, status, uid_changed, last_uid,
                            start_uid, new_email_ids, detection_tasks,
                            sync_log >>
       ELSE FolderDone(new_email_ids)
    /\ ResyncFrame
    /\ UNCHANGED << srvvars, mailbox_messages, next_row_id, email_messages,
                    email_bodies, email_recipients, selected, last_save,
                    budget, resync_log >>

NextResync ==
    \/ ResyncDeliver
    \/ SyncStart \/ SyncStatus \/ SyncUpsert \/ SyncSelect \/ SyncSearch
    \/ SyncNoUids \/ ResyncFetch \/ SyncSave \/ ResyncCursor \/ SyncFinish
    \/ SyncDetectStep

SpecResync == InitResync /\ [][NextResync]_vars

(***************************************************************************)
(* SpecMatch: the two matchers asked about one domain and one rule         *)
(***************************************************************************)
\* sender domains and URL host names, as the caller writes them
MatchDomains ==
    {<<"qq", "com">>, <<"QQ", "com">>, <<"mail", "qq", "com">>,
     <<"mail", "QQ", "com">>, <<"notqq", "com">>, <<"evil", "com">>,
     <<"com">>, <<"qq", "com", "evil", "com">>}

\* the rule_value column of the rules
MatchValues ==
    {Text("", <<"qq", "com">>), Text("", <<"QQ", "com">>),
     Text("", <<"com">>), Text("", <<"mail", "qq", "com">>),
     Text("", <<"qq">>), Text("alice", <<"qq", "com">>)}

SenderRuleTypes == {"EMAIL", "DOMAIN", "DOMAIN-SUFFIX", "DOMAIN-KEYWORD"}

UrlRuleTypes == {"DOMAIN", "DOMAIN-SUFFIX", "DOMAIN-KEYWORD"}

\* record of a _match_rule call
MatchRecord(matcher, domain, rule_type, rule_value, matched) ==
    [called |-> TRUE, matcher |-> matcher, domain |-> domain,
     rule_type |-> rule_type, rule_value |-> rule_value, matched |-> matched]

InitMatching ==
    /\ FirstSyncDone
    /\ InitEventService /\ InitWhitelist /\ InitBatches /\ InitStreams
    /\ InitList /\ InitPair /\ InitLate
    /\ InitMatch

\* SenderWhitelistMatcher._match_rule on the address alice@domain
MatchSender ==
    /\ \E domain \in MatchDomains, rule_type \in SenderRuleTypes,
          rule_value \in MatchValues :
          last_match' = MatchRecord("sender", domain, rule_type, rule_value,
                            sender_match_rule(Text("alice", domain), domain,
                                              rule_type, rule_value))
    /\ UNCHANGED << listvars, pairvars, latevars, batchvars, streamvars, evvars,
                    wlvars, mailvars >>

\* UrlWhitelistMatcher._match_rule on a host name
MatchUrl ==
    /\ \E domain \in MatchDomains, rule_type \in UrlRuleTypes,
          rule_value \in MatchValues :
          last_match' = MatchRecord("url", domain, rule_type, rule_value,
                            url_match_rule(domain, rule_type, rule_value))
    /\ UNCHANGED << listvars, pairvars, latevars, batchvars, streamvars, evvars,
                    wlvars, mailvars >>

NextMatch == MatchSender \/ MatchUrl

SpecMatch == InitMatching /\ [][NextMatch]_vars

(***************************************************************************)
(* EmailCrud.get_by_mailbox_ids_cursor and SpecList: the message list read *)
(* page by page                                                            *)
(***************************************************************************)
\* ORDER BY internal_date DESC, id DESC: row a comes before row b; MySQL
\* puts NULL below every date
comes_before(a, b) ==
    \/ a.internal_date > b.internal_date
    \/ a.internal_date = b.internal_date /\ a.id > b.id

\* the rows of a set in that order
RECURSIVE order_by_desc(_)
order_by_desc(rows) ==
    IF rows = {} THEN <<>>
    ELSE LET first == CHOOSE a \in rows :
                         \A b \in rows \ {a} : comes_before(a, b)
         IN << first >> \o order_by_desc(rows \ {first})

\* variant of the cursor condition without the exclusion of the rows
\* already returned
cursor_condition_date_only(row, cursor_date, cursor_id) ==
    /\ row.internal_date # NULL
    /\ row.internal_date <= cursor_date

\* cursor_condition: internal_date <= cursor_date and not (internal_date =
\* cursor_date and id >= cursor_id); a comparison with NULL is not true
cursor_condition(row, cursor_date, cursor_id) ==
    /\ row.internal_date # NULL
    /\ row.internal_date <= cursor_date
    /\ ~(row.internal_date = cursor_date /\ row.id >= cursor_id)

\* the rows the query without its LIMIT selects
matching_rows(table, mailbox_ids, cursor_date, cursor_id) ==
    {row \in table :
        /\ row.mailbox_id \in mailbox_ids
        /\ (cursor_date # NULL /\ cursor_id # NULL) =>
              cursor_condition(row, cursor_date, cursor_id)}

NoCursor == [present |-> FALSE, timestamp_ms |-> 0, id |-> 0]

\* get_by_mailbox_ids_cursor(mailbox_ids, limit, cursor_date, cursor_id):
\* messages_list and next_cursor
get_by_mailbox_ids_cursor(table, mailbox_ids, limit, cursor_date, cursor_id) ==
    IF mailbox_ids = {}
    THEN [messages_list |-> <<>>, next_cursor |-> NoCursor]
    ELSE LET ordered == order_by_desc(
                 matching_rows(table, mailbox_ids, cursor_date, cursor_id))
             fetched == SubSeq(ordered, 1, Max(0, IF Len(ordered) < limit + 1
                                               THEN Len(ordered)
                                               ELSE limit + 1))
         IN IF Len(fetched) > limit
            THEN LET messages_list == SubSeq(fetched, 1, limit)
                     last_item == messages_list[limit]
                 IN [messages_list |-> messages_list,
                     next_cursor |->
                         IF last_item.internal_date # NULL
                         THEN [present |-> TRUE,
                               timestamp_ms |-> last_item.internal_date * 1000,
                               id |-> last_item.id]
                         ELSE NoCursor]
            ELSE [messages_list |-> fetched, next_cursor |-> NoCursor]

\* record of a call: whether a (limit+1)-th matching row existed, the page
\* and the cursor returned
ListRecord(table, mailbox_ids, limit, cursor_date, cursor_id, res) ==
    [called |-> TRUE,
     limit |-> limit,
     found |-> Cardinality(
                   matching_rows(table, mailbox_ids, cursor_date, cursor_id)),
     messages_list |-> res.messages_list,
     next_cursor |-> res.next_cursor]

\* tables of rows with ids 1..n, each in a folder and with a date or none
ListTables ==
    UNION {{{[id |-> i, mailbox_id |-> mailbox[i], internal_date |-> date[i]] :
                i \in 1..n} :
              mailbox \in [1..n -> SelectableNames],
              date \in [1..n -> {NULL} \cup 1..MaxDate]} :
           n \in 0..MaxListRows}

InitListed ==
    /\ FirstSyncDone
    /\ InitEventService /\ InitWhitelist /\ InitBatches /\ InitStreams
    /\ InitMatch /\ InitPair /\ InitLate
    /\ list_rows \in ListTables
    /\ list_args \in [mailbox_ids : (SUBSET SelectableNames) \ {{"Sent"}},
                      limit : 1..MaxLimit]
    /\ list_pages = <<>>
    /\ list_last = [called |-> FALSE]

\* the first page, or the page after the last one: the caller passes the
\* internal_date and the id of the last row it got, as long as the call
\* before returned a next_cursor
ListPage ==
    /\ list_last.called => list_last.next_cursor.present
    /\ LET last_page == list_pages[Len(list_pages)]
           last_row == last_page[Len(last_page)]
           cursor_date == IF list_last.called THEN last_row.internal_date
                          ELSE NULL
           cursor_id == IF list_last.called THEN last_row.id ELSE NULL
       IN \E res \in {get_by_mailbox_ids_cursor(
                         list_rows, list_args.mailbox_ids, list_args.limit,
                         cursor_date, cursor_id)} :
             /\ list_pages' = Append(list_pages, res.messages_list)
             /\ list_last' = ListRecord(
                    list_rows, list_args.mailbox_ids, list_args.limit,
                    cursor_date, cursor_id, res)
    /\ UNCHANGED << list_rows, list_args, matchvars, pairvars, latevars, batchvars,
                    streamvars, evvars, wlvars, mailvars >>

\* a sync stores a new row between two pages
ListInsert ==
    /\ list_last.called
    /\ Cardinality(list_rows) < MaxListRows
    /\ \E name \in SelectableNames, date \in {NULL} \cup 1..MaxDate :
          list_rows' = list_rows \cup
              {[id |-> Cardinality(list_rows) + 1, mailbox_id |-> name,
                internal_date |-> date]}
    /\ UNCHANGED << list_args, list_pages, list_last, matchvars, pairvars, latevars,
                    batchvars, streamvars, evvars, wlvars, mailvars >>

NextList == ListPage \/ ListInsert

SpecList == InitListed /\ [][NextList]_vars

(***************************************************************************)
(* SpecStream: SSE streams whose clients go away                           *)
(***************************************************************************)
NextStream ==
    \/ register \/ publish_detection_update
    \/ StreamDisconnects \/ StreamChecks \/ StreamGets \/ StreamTimeouts

SpecStream == InitEvents /\ [][NextStream]_vars

\* the event loop runs every generator that can go on, and the timeout of
\* wait_for ends every wait
FairSpecStream ==
    /\ SpecStream
    /\ \A q \in 1..MaxQueues :
          /\ WF_vars(StreamCheck(q))
          /\ WF_vars(StreamGet(q) \/ StreamTimeout(q))

(***************************************************************************)
(* Properties of the store (SpecStore)                                     *)
(***************************************************************************)
\* C7: a call of save_mailbox_emails whose account, folder and payloads are
\* those of the successful call just before it commits, reports zero new
\* rows and no new ids, and leaves email_messages, email_bodies,
\* email_recipients and mailbox_messages as they were.
PersistIdempotent ==
    (last_save.called /\ last_save.repeat) =>
        /\ last_save.ok
        /\ last_save.count = 0
        /\ last_save.ids = <<>>
        /\ last_save.unchanged

\* a two-payload batch has been saved twice in a row and its rows exist
PersistIdempotentWitness ==
    /\ last_save.called
    /\ last_save.repeat
    /\ Len(last_save.payloads) = 2
    /\ \A i \in DOMAIN last_save.payloads :
          \E r \in mailbox_messages :
              /\ r.mailbox_id = last_save.mailbox_id
              /\ r.uid = last_save.payloads[i].uid

RowsOfMessage(table, m) == Cardinality({i \in DOMAIN table : table[i] = m})

\* C8: after any sequence of save_mailbox_emails calls, every payload of a
\* call has its mailbox_messages row, the rows of payloads with the same
\* Message-ID reference one single email_messages row, and that row has its
\* body and its recipients exactly once.
PersistSharesOneMessage ==
    /\ \A i, j \in DOMAIN email_messages :
          email_messages[i].message_id = email_messages[j].message_id => i = j
    /\ \A m \in DOMAIN email_messages :
          /\ RowsOfMessage(email_bodies, m) = 1
          /\ RowsOfMessage(email_recipients, m) =
                 Recipients(email_messages[m].message_id)
    /\ last_save.called =>
          \A i \in DOMAIN last_save.payloads :
              \E r \in mailbox_messages :
                  /\ r.mailbox_id = last_save.mailbox_id
                  /\ r.uid = last_save.payloads[i].uid
                  /\ email_messages[r.message].message_id =
                         last_save.payloads[i].message_id

(***************************************************************************)
(* Properties of sync_emails (SpecSync)                                    *)
(***************************************************************************)
SyncCompleted == pc = "idle" /\ sync_log.result = "completed"

SyncEnded == pc = "idle" /\ sync_log.result \in {"completed", "aborted"}

RowsOf(name) == {r \in mailbox_messages : r.mailbox_id = name}

\* C1: after a sync that ran to completion, the stored last_uid of every
\* folder it processed is at least the uid of every mailbox_messages row of
\* that folder.
CursorCoversRows ==
    SyncCompleted =>
        \A name \in SelectableNames : \A r \in RowsOf(name) :
            mailboxes[name].last_uid >= r.uid

\* C2: a step that leaves the stored uid_validity of a folder as it is never
\* lowers its last_uid.
CursorNeverDecreases ==
    [][\A name \in SelectableNames :
          (mailboxes[name].exists
             /\ mailboxes'[name].uid_validity = mailboxes[name].uid_validity)
          => mailboxes'[name].last_uid >= mailboxes[name].last_uid]_vars

NoRowOfReplacedValidity ==
    SyncCompleted =>
        \A r \in mailbox_messages :
            r.created_validity # NULL =>
                r.created_validity = mailboxes[r.mailbox_id].uid_validity

\* C5: a step other than redetect_all_emails leaves every COMPLETED
\* email_messages row COMPLETED.
CompletedStaysCompleted ==
    [][redetect_all_emails
       \/ \A m \in DOMAIN email_messages :
             email_messages[m].phishing_status = "COMPLETED" =>
                 /\ m \in DOMAIN email_messages'
                 /\ email_messages'[m].phishing_status = "COMPLETED"]_vars

\* after a uid_validity change and the purge, the refill reused a message
\* whose detection had completed, and the message is still COMPLETED
CompletedStaysCompletedWitness ==
    /\ pc = "cursor"
    /\ uid_changed
    /\ last_save.called
    /\ last_save.ok
    /\ last_save.reused_completed
    /\ \A i \in DOMAIN last_save.payloads : \E m \in DOMAIN email_messages :
          /\ email_messages[m].message_id = last_save.payloads[i].message_id
          /\ email_messages[m].phishing_status = "COMPLETED"

\* number of detection submissions of the sync that contain an id
Submissions(id) ==
    Cardinality({i \in DOMAIN sync_log.submitted :
                    id \in Range(sync_log.submitted[i])})

\* C9: when a sync has ended, every id save_mailbox_emails reported as new
\* during it is in exactly one id list the sync handed to
\* detect_emails_async.
ReportedIdsSubmittedOnce ==
    SyncEnded => \A id \in sync_log.reported : Submissions(id) = 1

\* C10: a folder whose SELECT failed in a sync is not searched, not fetched
\* from and gets no save_mailbox_emails call in that sync.
FailedSelectSkipsFolder ==
    sync_log.select_failed
        \cap (sync_log.searched \cup sync_log.fetched \cup sync_log.saved) = {}

\* position of a folder in the LIST response
FolderPos(name) == CHOOSE i \in DOMAIN Mailboxes : Mailboxes[i].name = name

\* C11: when save_mailbox_emails or the cursor update of a folder raised in
\* a sync, every selectable folder after it in LIST order has still been
\* processed (its UID search issued) when the sync has ended.
StoreErrorAbortsOnlyFolder ==
    SyncEnded =>
        \A f \in sync_log.store_failed : \A g \in SelectableNames :
            FolderPos(g) > FolderPos(f) => g \in sync_log.searched

(***************************************************************************)
(* Properties of the detection pipeline (SpecDetect)                       *)
(***************************************************************************)
\* C6: every COMPLETED email_messages row has the phishing_level that the
\* thresholds give for its stored phishing_score: HIGH_RISK from 0.8,
\* SUSPICIOUS from 0.6 to below 0.8, NORMAL below 0.6.
LevelMatchesScore ==
    \A m \in DOMAIN email_messages :
        email_messages[m].phishing_status = "COMPLETED" =>
            email_messages[m].phishing_level =
                (IF email_messages[m].phishing_score >= 8 * (Scale \div 10)
                 THEN "HIGH_RISK"
                 ELSE IF email_messages[m].phishing_score >= 6 * (Scale \div 10)
                 THEN "SUSPICIOUS"
                 ELSE "NORMAL")

(***************************************************************************)
(* Properties of the event service (SpecEvents)                            *)
(***************************************************************************)
\* C12: no queue ever holds more than QueueMaxSize frames, and a publish to
\* a user puts the new frame at the end of every queue registered for that
\* user: behind the frames the queue held when it had room, and behind all
\* but the oldest of them when it was full.
QueueDropsOldest ==
    [][/\ \A q \in DOMAIN queues' : Len(queues'[q].frames) <= QueueMaxSize
       /\ Len(published') = Len(published) + 1 =>
             LET last == published'[Len(published')]
             IN \A q \in last.queues :
                   queues'[q].frames =
                       IF Len(queues[q].frames) = QueueMaxSize
                       THEN Append(Tail(queues[q].frames), last.message)
                       ELSE Append(queues[q].frames, last.message)]_vars

\* a stream that has yielded nothing holds QueueMaxSize frames, the newest
\* published one at the end, and has lost a frame published to it
QueueDropsOldestWitness ==
    \E q \in DOMAIN queues :
        /\ dequeued[q] = <<>>
        /\ Len(queues[q].frames) = QueueMaxSize
        /\ queues[q].frames[QueueMaxSize] = published[Len(published)].message
        /\ \E i \in DOMAIN published :
              /\ q \in published[i].queues
              /\ published[i].message \notin Range(queues[q].frames)

\* C13: the frames a stream has yielded, followed by the frames waiting in
\* its queue, are frames published to the user of the stream while it was
\* registered, in publish order and each at most once.
StreamInPublishOrder ==
    \A q \in DOMAIN queues :
        LET frames == dequeued[q] \o queues[q].frames
        IN /\ \A i, j \in DOMAIN frames :
                 i < j => frames[i].data < frames[j].data
           /\ \A i \in DOMAIN frames :
                 \E k \in DOMAIN published :
                    /\ published[k].message = frames[i]
                    /\ published[k].user_id = queues[q].user_id
                    /\ q \in published[k].queues

\* a stream has yielded two frames after its queue overflowed and lost an
\* older one
StreamInPublishOrderWitness ==
    \E q \in DOMAIN queues :
        /\ Len(dequeued[q]) >= 2
        /\ \E i \in DOMAIN published :
              /\ q \in published[i].queues
              /\ published[i].message.data < dequeued[q][1].data

RedetectResetsToPending ==
    [][redetect_all_emails =>
          \A r \in mailbox_messages :
              email_messages'[r.message].phishing_status = "PENDING"]_vars

\* C17: a whitelist decision of the detection pipeline follows the active
\* rules the tables hold when it is made, whatever the operator created,
\* updated, deactivated or deleted before: the detectors are skipped exactly
\* when the sender matches an active sender rule or the message has URLs
\* that all match active URL rules.
DecisionFollowsRuleEdits ==
    last_detection.called =>
        ((last_detection.ran = {}) <=>
            \/ last_detection.sender_active
            \/ (last_detection.has_urls /\ last_detection.urls_active))


\* C18: the UID search of the sync returns, in ascending order, only UIDs
\* that are at least the start UID it was asked for and that are in the
\* selected folder.
SearchReturnsUidsFromStart ==
    [][SyncSearch =>
          /\ \A i, j \in DOMAIN uids' : i < j => uids'[i] < uids'[j]
          /\ \A i \in DOMAIN uids' :
                /\ uids'[i] >= Max(start_uid', 1)
                /\ uids'[i] \in srv_messages[selected]]_vars


\* C19: whatever goes wrong while the UIDs of a chunk are fetched, the sync
\* goes on: with the messages that were delivered, with the next chunk, or
\* with the next folder. The fetch of a chunk never ends the sync.
FetchFailureOmitsOnlyUid ==
    [][pc = "fetch" => pc' \in {"fetch", "save", "status", "finish"}]_vars


\* C20: a save_mailbox_emails call whose transaction fails leaves the
\* messages, bodies, recipients and mailbox_messages tables exactly as
\* they were before the call.
FailedSaveChangesNothing ==
    (last_save.called /\ ~last_save.ok) => last_save.unchanged

\* a call failed on a store that already held rows, for a batch of more
\* than one payload
FailedSaveChangesNothingWitness ==
    /\ last_save.called
    /\ ~last_save.ok
    /\ Len(last_save.payloads) > 1
    /\ mailbox_messages # {}


\* the rows of table that a payload of the last save_mailbox_emails call
\* addresses: same folder, same UID
RowsAddressed(table, save, i) ==
    {r \in table : r.mailbox_id = save.mailbox_id /\ r.uid = save.payloads[i].uid}

\* C21: a successful save_mailbox_emails call refreshes, for every payload
\* whose (mailbox_id, uid) is already stored, the flags string and the five
\* derived booleans of that row and nothing else of it; the row is not in
\* the returned ids, the count is the number of payloads without a stored
\* row, the rows the batch does not address stay as they are, and a call
\* whose payloads are all stored leaves messages, bodies and recipients
\* as they are.
FlagRefreshChangesOnlyFlags ==
    [][(last_save'.called /\ last_save'.ok) =>
         LET save == last_save'
             stored == {i \in DOMAIN save.payloads :
                           RowsAddressed(mailbox_messages, save, i) # {}}
         IN /\ \A i \in stored :
                 \A r \in RowsAddressed(mailbox_messages, save, i) :
                    LET st == flags_to_status(save.payloads[i].flags)
                    IN /\ RowsAddressed(mailbox_messages', save, i) =
                            {[r EXCEPT
                                !.flags = normalize_flags(save.payloads[i].flags),
                                !.is_read = st.is_read,
                                !.is_flagged = st.is_flagged,
                                !.is_answered = st.is_answered,
                                !.is_deleted = st.is_deleted,
                                !.is_draft = st.is_draft]}
                       /\ r.id \notin Range(save.ids)
            /\ save.count = Len(save.payloads) - Cardinality(stored)
            /\ Cardinality(mailbox_messages') =
                  Cardinality(mailbox_messages) + save.count
            /\ \A r \in mailbox_messages :
                  (\A i \in DOMAIN save.payloads :
                      r \notin RowsAddressed(mailbox_messages, save, i))
                  => r \in mailbox_messages'
            /\ stored = DOMAIN save.payloads =>
                  /\ email_messages' = email_messages
                  /\ email_bodies' = email_bodies
                  /\ email_recipients' = email_recipients
                  /\ save.ids = <<>>]_vars

\* a successful call inserted nothing and changed the flags of a stored row
FlagRefreshChangesOnlyFlagsWitness ==
    /\ last_save.called
    /\ last_save.ok
    /\ last_save.count = 0
    /\ last_save.payloads # <<>>
    /\ ~last_save.unchanged


(***************************************************************************)
(* Properties of a detection batch (SpecBatch)                             *)
(***************************************************************************)
\* the users that own a message of the batch
BatchOwners(task) ==
    {account_user[r.message] :
        r \in {row \in mailbox_messages : row.id \in Range(task.email_ids)}}

\* positions of the events of a name in the events of a batch
EventPositions(task, event) ==
    {i \in DOMAIN task.events : task.events[i].event = event}

\* C22: a finished batch has published exactly one batch-completed event to
\* every user that owns a message of the batch and none to any other user,
\* each with total equal to the number of ids of the batch, and all of them
\* after the last update event of the batch.
BatchCompletedOncePerOwner ==
    \A b \in DOMAIN batches :
        batches[b].pc = "done" =>
            LET task == batches[b]
                completed == EventPositions(task, "phishing_batch_completed")
            IN /\ \A u \in Users :
                     Cardinality({i \in completed :
                                     task.events[i].user_id = u}) =
                        (IF u \in BatchOwners(task) THEN 1 ELSE 0)
               /\ \A i \in completed :
                     task.events[i].total = Len(task.email_ids)
               /\ \A i \in completed :
                     \A j \in EventPositions(task, "phishing_update") : j < i

\* C23: a batch takes its ids one at a time in list order; an iteration that
\* raises changes no stored classification, and the loop still goes through
\* every later id before the batch ends.
BatchSequentialDespiteErrors ==
    [][\A b \in DOMAIN batches' :
          LET task == batches'[b]
          IN /\ Len(task.processed) <= Len(task.email_ids)
             /\ \A i \in DOMAIN task.processed :
                   task.processed[i].email_id = task.email_ids[i]
             /\ task.pc \in {"finally", "done"} =>
                   Len(task.processed) = Len(task.email_ids)
             /\ task.pc = "loop" => task.next = Len(task.processed) + 1
             /\ (/\ b \in DOMAIN batches
                 /\ Len(task.processed) = Len(batches[b].processed) + 1
                 /\ task.processed[Len(task.processed)].outcome = "raised")
                => email_messages' = email_messages]_vars

\* a batch of two ids has ended: the first iteration raised, the second
\* stored a result
BatchSequentialDespiteErrorsWitness ==
    \E b \in DOMAIN batches :
        /\ batches[b].pc = "done"
        /\ Len(batches[b].processed) = 2
        /\ batches[b].processed[1].outcome = "raised"
        /\ batches[b].processed[2].outcome = "updated"
        /\ email_messages[(CHOOSE r \in mailbox_messages :
              r.id = batches[b].email_ids[2]).message].phishing_status
             = "COMPLETED"


(***************************************************************************)
(* Properties of the SSE streams (FairSpecStream)                          *)
(***************************************************************************)
\* C24: once the client of a stream has gone, the stream ends at most one
\* turn of its loop, then stops with its queue removed from _connections;
\* and a user is a key of _connections exactly while a queue is registered
\* for the user.
StreamStopsAfterDisconnect ==
    /\ [](\A q \in 1..MaxQueues : streams[q].late_turns <= 1)
    /\ [](\A u \in Users : u \in connection_keys <=> connections[u] # <<>>)
    /\ \A q \in 1..MaxQueues :
          streams[q].disconnected ~>
              (streams[q].pc = "stopped" /\ q \notin Registered)

\* a stream whose client went away during a wait has stopped after that
\* turn, and its user, who had no other stream, is no key of _connections
StreamStopsAfterDisconnectWitness ==
    \E q \in DOMAIN queues :
        /\ streams[q].pc = "stopped"
        /\ streams[q].late_turns = 1
        /\ q \notin Registered
        /\ queues[q].user_id \notin connection_keys


\* C25: a detection that runs the detectors while the classifier is not
\* loaded still stores a COMPLETED result: the classifier gives NORMAL with
\* score 0.0, and with long-URL detection enabled the stored level and
\* score are those of the long-URL detector.
UnloadedModelStillCompletes ==
    (last_detection.called /\ ~last_detection.ml_loaded
        /\ last_detection.ran # {}) =>
        LET stored == email_messages[last_detection.message]
        IN /\ stored.phishing_status = "COMPLETED"
           /\ last_detection.ml = [level |-> "NORMAL", score |-> 0]
           /\ stored.phishing_level =
                 (IF last_detection.long_url_enabled
                  THEN last_detection.url.level ELSE "NORMAL")
           /\ stored.phishing_score =
                 (IF last_detection.long_url_enabled
                  THEN last_detection.url.score ELSE 0)

\* without the classifier, with long-URL detection enabled, a mail with a
\* long URL was stored as HIGH_RISK
UnloadedModelStillCompletesWitness ==
    /\ last_detection.called
    /\ ~last_detection.ml_loaded
    /\ last_detection.long_url_enabled
    /\ last_detection.ran = {"long_url", "ml"}
    /\ last_detection.url.level = "HIGH_RISK"
    /\ email_messages[last_detection.message].phishing_level = "HIGH_RISK"
    /\ email_messages[last_detection.message].phishing_status = "COMPLETED"

\* rank of a level: HIGH_RISK > SUSPICIOUS > NORMAL
LevelRank(level) ==
    CASE level = "HIGH_RISK" -> 3
      [] level = "SUSPICIOUS" -> 2
      [] OTHER -> 1

\* C26: with long-URL detection enabled the result of the detectors has the
\* higher of the two detectors' levels and the larger of their scores; with
\* it disabled the result is the classifier's.
CombinedIsMaximum ==
    (last_detection.called /\ last_detection.ran # {}) =>
        IF last_detection.long_url_enabled
        THEN /\ LevelRank(last_detection.level) =
                   Max(LevelRank(last_detection.ml.level),
                       LevelRank(last_detection.url.level))
             /\ last_detection.score =
                   Max(last_detection.ml.score, last_detection.url.score)
        ELSE /\ last_detection.level = last_detection.ml.level
             /\ last_detection.score = last_detection.ml.score


(***************************************************************************)
(* Properties of the paged message list (SpecList)                         *)
(***************************************************************************)
\* the pages returned so far, one after the other
RECURSIVE AllPages(_)
AllPages(pages) ==
    IF pages = <<>> THEN <<>> ELSE Head(pages) \o AllPages(Tail(pages))

\* C28: in a chain of get_by_mailbox_ids_cursor calls, each called with the
\* internal_date and id of the last row of the page before, no row id is
\* returned twice and the rows come in the order internal_date descending,
\* id descending.
PagesDisjointAndOrdered ==
    LET seen == AllPages(list_pages)
    IN \A i, j \in DOMAIN seen :
          i < j => /\ seen[i].id # seen[j].id
                   /\ comes_before(seen[i], seen[j])

\* two pages have been returned, and the last row of the first has the
\* internal_date of the first row of the second
PagesDisjointAndOrderedWitness ==
    /\ Len(list_pages) >= 2
    /\ list_pages[1] # <<>>
    /\ list_pages[2] # <<>>
    /\ list_pages[1][Len(list_pages[1])].internal_date =
          list_pages[2][1].internal_date

\* C29: a call returns at most limit rows, and returns a next_cursor
\* exactly when more than limit rows match its query.
NextCursorIffMoreRows ==
    list_last.called =>
        /\ Len(list_last.messages_list) <= list_last.limit
        /\ list_last.next_cursor.present <=>
              list_last.found > list_last.limit


(***************************************************************************)
(* Properties of the rule matchers (SpecMatch)                             *)
(***************************************************************************)
\* the labels of domain are one or more labels followed by those of value
EndsWithDotAnd(domain, value) ==
    \E k \in 1..(Len(domain) - 1) :
        [i \in 1..(Len(domain) - k) |-> domain[k + i]] = value

\* C27: a DOMAIN-SUFFIX rule X matches a sender domain or a URL host name
\* d exactly when, in lower case, d is X or d ends with "." followed by X;
\* a domain with X as a mere trailing substring does not match.
SuffixRuleMatchesWholeLabels ==
    (last_match.called /\ last_match.rule_type = "DOMAIN-SUFFIX") =>
        LET d == lower(Text("", last_match.domain))
            x == lower(last_match.rule_value)
        IN last_match.matched <=>
              \/ d = x
              \/ x.local = "" /\ EndsWithDotAnd(d.domain, x.domain)

\* the URL matcher has been asked about notqq.com and the rule qq.com, and
\* has found no match
SuffixRuleMatchesWholeLabelsWitness ==
    /\ last_match.called
    /\ last_match.matcher = "url"
    /\ last_match.rule_type = "DOMAIN-SUFFIX"
    /\ last_match.domain = <<"notqq", "com">>
    /\ last_match.rule_value = Text("", <<"qq", "com">>)
    /\ ~last_match.matched


(***************************************************************************)
(* Properties of two concurrent syncs (SpecPair)                           *)
(***************************************************************************)
\* both calls have been started and both have ended
PairEnded ==
    /\ syncs.started
    /\ budget.syncs = MaxSyncs
    /\ pc = "idle"
    /\ syncs.parked.pc = "idle"

\* last_uid of a folder after one sync that starts with the cursor at
\* cursor and finds the messages found in the folder
cursor_after_sync(cursor, messages, uid_next) ==
    LET found == uid_search(messages,
                            Max(compute_start_uid(cursor, uid_next), 1))
    IN IF found = {} THEN cursor ELSE MaxOf(found)

\* the values of last_uid that two calls leave when the second starts after
\* the first has ended: the first sees the folder as it was at the start or
\* as it is now, the second as it is now
SequentialCursors(name) ==
    {cursor_after_sync(first, srv_messages[name], srv_uid_next[name]) :
        first \in
            {cursor_after_sync(PairStart.db.mailboxes[name].last_uid,
                               PairStart.srv_messages[name],
                               PairStart.srv_uid_next[name]),
             cursor_after_sync(PairStart.db.mailboxes[name].last_uid,
                               srv_messages[name], srv_uid_next[name])}}

\* no two mailbox_messages rows share (mailbox_id, uid)
UniqueMailboxUid ==
    \A r1, r2 \in mailbox_messages :
        (r1.mailbox_id = r2.mailbox_id /\ r1.uid = r2.uid) => r1 = r2

\* no two email_messages rows share the Message-ID
UniqueMessageId ==
    NoDuplicates([i \in DOMAIN email_messages |-> email_messages[i].message_id])

\* C30: when two syncs of one account that ran at the same time have both
\* ended, no two mailbox_messages rows share (mailbox_id, uid), no two
\* email_messages rows share the Message-ID, and last_uid of every folder
\* is the value the two syncs leave when one runs after the other.
ConcurrentSyncsAsSequential ==
    PairEnded =>
        /\ UniqueMailboxUid
        /\ UniqueMessageId
        /\ \A name \in SelectableNames :
              mailboxes[name].last_uid \in SequentialCursors(name)


(***************************************************************************)
(* Properties of the settings cache (SpecSettings)                         *)
(***************************************************************************)
\* C31: an is_long_url_detection_enabled call that begins after
\* update_settings(v) has returned, and returns before the next update
\* begins, returns v, also when a get_settings call that read the database
\* before the update sets the cache after it.
ReadsSeeLastUpdate ==
    (/\ settings_calls.started
     /\ settings_calls.last_get.called
     /\ settings_calls.last_get.checked) =>
        settings_calls.last_get.value = settings_calls.last_get.expected


(***************************************************************************)
(* Properties of the model reload (SpecReload)                             *)
(***************************************************************************)
\* C32: a detection never sees the model unloaded or partly loaded: its
\* level and score are those the model gives as loaded before or after a
\* reload_model that runs during the detection.
DetectSeesWholeModel ==
    (ml_calls.started /\ ml_calls.last_result.called) =>
        \E version \in ml_calls.last_result.versions :
            [level |-> ml_calls.last_result.level,
             score |-> ml_calls.last_result.score] \in LoadedResult(version)


\* the UIDs of a folder that have a mailbox_messages row
StoredUids(name) == {r.uid : r \in {x \in mailbox_messages : x.mailbox_id = name}}

\* C33: when the FETCH of a UID failed in a sync while other UIDs of its
\* chunk were stored, a later sync that has completed and has searched the
\* folder has requested that UID again.
FailedUidRequestedAgain ==
    (resync_log.started /\ SyncCompleted) =>
        \A f \in resync_log.failed :
            (/\ f.sync < budget.syncs
             /\ f.others # {}
             /\ f.others \subseteq StoredUids(f.folder)
             /\ f.folder \in sync_log.searched
             /\ f.folder \notin sync_log.select_failed) =>
                [folder |-> f.folder, uid |-> f.uid, sync |-> budget.syncs]
                    \in resync_log.requested


\* C34: when a sync has completed without any failed IMAP command, every
\* message that was delivered to a folder after the earlier sync and before
\* this one started has its mailbox_messages row, however many were
\* delivered and whether or not the folder held a message before.
NewMessagesPersisted ==
    (resync_log.started /\ SyncCompleted /\ budget.faults = 0) =>
        \A a \in resync_log.arrived :
            a.sync <= budget.syncs => a.uid \in StoredUids(a.folder)


\* C35: a row that mark_as_read has set to read (is_read is true while the
\* stored flags carry no \Seen) is still read after any later step that
\* keeps the row, a save_mailbox_emails of a sync included; and a second
\* mark_as_read of a row changes nothing.
MarkedReadStaysRead ==
    [][/\ \A r \in mailbox_messages : \A n \in mailbox_messages' :
             (/\ r.id = n.id
              /\ r.is_read
              /\ ~flags_to_status(r.flags).is_read) => n.is_read
       /\ \A id \in 1..MaxRowId :
             mark_as_read(mark_as_read(mailbox_messages, id), id) =
                 mark_as_read(mailbox_messages, id)]_vars


\* the user that owns the account of the message of a mailbox_messages row
OwnerOf(email_id) ==
    account_user[(CHOOSE r \in mailbox_messages : r.id = email_id).message]

\* C36: a frame published for a user is put into no queue that was
\* registered for another user, and the phishing_update of a message is
\* published to the user who owns the account of the message, whatever
\* streams register or unregister in between.
PublishReachesOnlyOwner ==
    [][\A k \in (Len(published) + 1)..Len(published') :
          LET p == published'[k]
          IN /\ \A q \in DOMAIN queues' :
                   (\E i \in DOMAIN queues'[q].frames :
                        queues'[q].frames[i] = p.message) =>
                       queues'[q].user_id = p.user_id
             /\ \A q \in p.queues : queues'[q].user_id = p.user_id
             /\ p.message.event = "phishing_update" =>
                   \E b \in DOMAIN batches :
                      LET done == batches'[b].processed
                      IN /\ Len(done) = Len(batches[b].processed) + 1
                         /\ done[Len(done)].outcome = "updated"
                         /\ p.user_id = OwnerOf(done[Len(done)].email_id)]_vars

\* a phishing_update is in the queue of its user, registered after a queue
\* of the other user that is still registered
PublishReachesOnlyOwnerWitness ==
    \E q, own \in DOMAIN queues :
        /\ q < own
        /\ q \in Registered
        /\ queues[q].user_id # queues[own].user_id
        /\ \E k \in DOMAIN published :
              /\ published[k].message.event = "phishing_update"
              /\ published[k].user_id = queues[own].user_id
              /\ \E i \in DOMAIN queues[own].frames :
                    queues[own].frames[i] = published[k].message

====
